---- MODULE Spec2Model ----
(***************************************************************************)
(* Access control and secure delivery of the research repository backend:  *)
(* the principal resolver (middleware/authMiddleware.js), the visibility    *)
(* evaluator canView, the two capability minters and the file streamer      *)
(* (routes/research.js, routes/repositoryRoutes.js), and the staff write    *)
(* operations that change what the evaluator reads (routes/researchAdmin.js)*)
(*                                                                          *)
(* Strings the code converts (toLowerCase, trim, slice) are sequences of    *)
(* one-character strings, so that the conversions are computed.             *)
(* Time is in whole seconds, the unit of the JWT iat/exp claims.            *)
(***************************************************************************)
EXTENDS Integers, Sequences, FiniteSets, TLC

(***************************************************************************)
(* String helpers (JavaScript String methods)                               *)
(***************************************************************************)
UpperChars == <<"A","B","C","D","E","F","G","H","I","J","K","L","M",
                "N","O","P","Q","R","S","T","U","V","W","X","Y","Z">>

LowerChars == <<"a","b","c","d","e","f","g","h","i","j","k","l","m",
                "n","o","p","q","r","s","t","u","v","w","x","y","z">>

\* one character of String.prototype.toLowerCase
LowerOf == [i \in 1..Len(UpperChars) |-> LowerChars[i]]

LowerChar(c) ==
  CASE c = "A" -> LowerOf[1]  [] c = "B" -> LowerOf[2]  [] c = "C" -> LowerOf[3]
    [] c = "D" -> LowerOf[4]  [] c = "E" -> LowerOf[5]  [] c = "F" -> LowerOf[6]
    [] c = "G" -> LowerOf[7]  [] c = "H" -> LowerOf[8]  [] c = "I" -> LowerOf[9]
    [] c = "J" -> LowerOf[10] [] c = "K" -> LowerOf[11] [] c = "L" -> LowerOf[12]
    [] c = "M" -> LowerOf[13] [] c = "N" -> LowerOf[14] [] c = "O" -> LowerOf[15]
    [] c = "P" -> LowerOf[16] [] c = "Q" -> LowerOf[17] [] c = "R" -> LowerOf[18]
    [] c = "S" -> LowerOf[19] [] c = "T" -> LowerOf[20] [] c = "U" -> LowerOf[21]
    [] c = "V" -> LowerOf[22] [] c = "W" -> LowerOf[23] [] c = "X" -> LowerOf[24]
    [] c = "Y" -> LowerOf[25] [] c = "Z" -> LowerOf[26]
    [] OTHER -> c

\* String.prototype.toLowerCase
toLowerCase(s) == [i \in 1..Len(s) |-> LowerChar(s[i])]

\* String.prototype.trim (the only white space the model's strings hold is " ")
RECURSIVE trimStart(_)
trimStart(s) == IF s # <<>> /\ Head(s) = " " THEN trimStart(Tail(s)) ELSE s

RECURSIVE trimEnd(_)
trimEnd(s) ==
  IF s # <<>> /\ s[Len(s)] = " " THEN trimEnd(SubSeq(s, 1, Len(s) - 1)) ELSE s

trim(s) == trimEnd(trimStart(s))

\* String.prototype.lastIndexOf for a one-character needle, 1-based; 0 = not found
lastIndexOf(s, c) ==
  IF \E i \in 1..Len(s) : s[i] = c
    THEN CHOOSE i \in 1..Len(s) : s[i] = c /\ \A j \in (i+1)..Len(s) : s[j] # c
    ELSE 0

\* s ends with suffix t
endsWith(s, t) ==
  /\ Len(s) >= Len(t)
  /\ SubSeq(s, Len(s) - Len(t) + 1, Len(s)) = t

(***************************************************************************)
(* Program constants                                                        *)
(***************************************************************************)
\* research.js: const MSUIIT_DOMAIN = "@g.msuiit.edu.ph"
MSUIIT_DOMAIN ==
  <<"@","g",".","m","s","u","i","i","t",".","e","d","u",".","p","h">>

\* authMiddleware.js: const JWT_ISSUER = "repo-api"
JWT_ISSUER == "repo-api"

\* authMiddleware.js: const CLOCK_TOLERANCE = 10 (seconds)
CLOCK_TOLERANCE == 10

\* research.js: jwt.sign(..., { expiresIn: "2m" }) and expiresIn: 120
SIGNED_URL_TTL == 120

\* auth.js: signAuthToken, expiresIn: '7d'
AUTH_TOKEN_TTL == 604800

\* the two signing secrets, supplied by the environment
JWT_SECRET == "jwt-secret"
SIGNED_URL_SECRET == "signed-url-secret"

\* researchAdmin.js: ALLOWED_VIS, ALLOWED_STATUS
PUBLIC  == <<"p","u","b","l","i","c">>
CAMPUS  == <<"c","a","m","p","u","s">>
PRIVATE == <<"p","r","i","v","a","t","e">>
EMBARGO == <<"e","m","b","a","r","g","o">>
ALLOWED_VIS == {PUBLIC, CAMPUS, PRIVATE, EMBARGO}
ALLOWED_STATUS == {"pending", "approved", "rejected"}

STUDENT == <<"s","t","u","d","e","n","t">>
FACULTY == <<"f","a","c","u","l","t","y">>
STAFF   == <<"s","t","a","f","f">>
ADMIN   == <<"a","d","m","i","n">>

(***************************************************************************)
(* Bounds of the model                                                      *)
(***************************************************************************)
\* the clock stops here
MaxClock == 130

\* read handles the process can hold open at once
MaxHandles == 2

\* the clock of the runs in which minutes pass stops here
MaxWait == 460

\* the mail transport is handed at most this many messages
MaxMail == 2

(***************************************************************************)
(* Values                                                                   *)
(***************************************************************************)
\* TLC keeps the fields of a record in the order in which their names first
\* occur in the module; every record below lists its fields in this order
FieldOrder ==
  [isSet |-> 1, at |-> 2, isArray |-> 3, items |-> 4, exists |-> 5,
   status |-> 6, visibility |-> 7, embargoUntil |-> 8,
   allowedViewers |-> 9, author |-> 10, student |-> 11, adviser |-> 12,
   uploadedBy |-> 13, filePath |-> 14, kind |-> 15, secret |-> 16,
   iss |-> 17, iat |-> 0, exp |-> 18, scheme |-> 19, hdr |-> 20, sig |-> 21,
   token |-> 22, method |-> 23, id |-> 24, email |-> 25, role |-> 26,
   sub |-> 27, fileId |-> 28, isCampus |-> 29, signedUrl |-> 30,
   sigFileId |-> 31, body |-> 32, next |-> 33, user |-> 34, route |-> 35,
   req |-> 36, reached |-> 37, streamed |-> 38, minted |-> 39,
   fd |-> 40, piped |-> 41, headersSent |-> 42, closed |-> 43,
   title |-> 44, coAuthors |-> 45, year |-> 46, keywords |-> 47,
   category |-> 48, categories |-> 49, genreTags |-> 50, uploaderRole |-> 51,
   q |-> 52, genre |-> 53, sort |-> 54, page |-> 55, limit |-> 56,
   op |-> 57, arg |-> 58, query |-> 59, data |-> 60, total |-> 61,
   source |-> 62, submissionType |-> 63, sourceId |-> 64, phase |-> 65,
   createdAt |-> 66, due |-> 67, verified |-> 68, verificationCode |-> 69,
   loginOtp |-> 70, loginOtpExpires |-> 71, code |-> 72, pin |-> 73,
   lastVerifiedAt |-> 74]

\* a Date field that is null or missing / one that holds an instant
NoDate == [isSet |-> FALSE, at |-> 0]
DateAt(instant) == [isSet |-> TRUE, at |-> instant]

\* getTime() of an Invalid Date
NaN == -1

\* in a request body: a non-empty string that is no date; new Date(string)
\* is then an Invalid Date, which is truthy
JunkDate == [isSet |-> TRUE, at |-> NaN]

\* an allowedViewers field that is an array of strings / one that is missing
ArrayOf(S) == [isArray |-> TRUE, items |-> S]
NotArray == [isArray |-> FALSE, items |-> {}]

\* findById found nothing
NoDoc == [exists |-> FALSE]

\* req.user before a middleware has set it
NoUser == [isSet |-> FALSE]

(***************************************************************************)
(* Visibility evaluator (routes/research.js)                                *)
(***************************************************************************)
\* authMiddleware.js: /@g\.msuiit\.edu\.ph$/i.test(String(email))
isMsuiitG(email) == endsWith(toLowerCase(email), MSUIIT_DOMAIN)

sameEmail(a, b) == toLowerCase(trim(a)) = toLowerCase(trim(b))

userDomain(email) ==
  LET e  == toLowerCase(email)
      at == lastIndexOf(e, "@")
  IN  IF at >= 1 THEN SubSeq(e, at, Len(e)) ELSE <<>>

\* ownership compared without lowercasing the stored names
isOwnerStaffOrAdviser_caseSensitive(r, user) ==
  LET email  == toLowerCase(user.email)
      role   == toLowerCase(user.role)
  IN  \/ email \in {r.student, r.author}
      \/ r.uploadedBy = user.id
      \/ role = STAFF \/ role = ADMIN
      \/ email # <<>> /\ trim(email) = trim(r.adviser)

\* the role test without admin
isOwnerStaffOrAdviser_staffOnly(r, user) ==
  LET email  == toLowerCase(user.email)
      role   == toLowerCase(user.role)
  IN  \/ email \in {toLowerCase(r.student), toLowerCase(r.author)}
      \/ r.uploadedBy = user.id
      \/ role = STAFF
      \/ email # <<>> /\ sameEmail(email, r.adviser)

isOwnerStaffOrAdviser(r, user) ==
  LET email  == toLowerCase(user.email)
      userId == user.id
      role   == toLowerCase(user.role)
      isOwnerEmail == email \in {toLowerCase(r.student), toLowerCase(r.author)}
      isUploader   == r.uploadedBy = userId
      isStaff      == role = STAFF \/ role = ADMIN
      isAdviser    == email # <<>> /\ sameEmail(email, r.adviser)
  IN  isOwnerEmail \/ isUploader \/ isStaff \/ isAdviser

\* the embargo test with <= for <
canViewByVisibility_lateEmbargo(r, user, now) ==
  LET viewerEmail  == toLowerCase(user.email)
      viewerDomain == userDomain(viewerEmail)
      vis == toLowerCase(IF r.visibility # <<>> THEN r.visibility ELSE CAMPUS)
  IN  IF vis = EMBARGO
        THEN IF r.embargoUntil.isSet /\ now <= r.embargoUntil.at
               THEN FALSE
               ELSE viewerDomain = MSUIIT_DOMAIN
      ELSE IF vis = PUBLIC THEN TRUE
      ELSE IF vis = CAMPUS THEN viewerDomain = MSUIIT_DOMAIN
      ELSE IF vis = PRIVATE
        THEN LET allow == IF r.allowedViewers.isArray
                            THEN r.allowedViewers.items ELSE {}
             IN  viewerEmail \in {toLowerCase(e) : e \in allow}
      ELSE viewerDomain = MSUIIT_DOMAIN

\* the allow-list used as stored, not lowercased
canViewByVisibility_rawList(r, user, now) ==
  LET viewerEmail  == toLowerCase(user.email)
      viewerDomain == userDomain(viewerEmail)
      vis == toLowerCase(IF r.visibility # <<>> THEN r.visibility ELSE CAMPUS)
  IN  IF vis = EMBARGO
        THEN IF r.embargoUntil.isSet /\ now < r.embargoUntil.at
               THEN FALSE
               ELSE viewerDomain = MSUIIT_DOMAIN
      ELSE IF vis = PUBLIC THEN TRUE
      ELSE IF vis = CAMPUS THEN viewerDomain = MSUIIT_DOMAIN
      ELSE IF vis = PRIVATE
        THEN LET allow == IF r.allowedViewers.isArray
                            THEN r.allowedViewers.items ELSE {}
             IN  viewerEmail \in allow
      ELSE viewerDomain = MSUIIT_DOMAIN

\* a missing or unknown visibility read as the schema default, public
canViewByVisibility_openFallback(r, user, now) ==
  LET viewerEmail  == toLowerCase(user.email)
      viewerDomain == userDomain(viewerEmail)
      vis == toLowerCase(IF r.visibility # <<>> THEN r.visibility ELSE PUBLIC)
  IN  IF vis = EMBARGO
        THEN IF r.embargoUntil.isSet /\ now < r.embargoUntil.at
               THEN FALSE
               ELSE viewerDomain = MSUIIT_DOMAIN
      ELSE IF vis = PUBLIC THEN TRUE
      ELSE IF vis = CAMPUS THEN viewerDomain = MSUIIT_DOMAIN
      ELSE IF vis = PRIVATE
        THEN LET allow == IF r.allowedViewers.isArray
                            THEN r.allowedViewers.items ELSE {}
             IN  viewerEmail \in {toLowerCase(e) : e \in allow}
      ELSE TRUE

\* the branch of canView taken once ownership and role did not decide
canViewByVisibility(r, user, now) ==
  LET viewerEmail  == toLowerCase(user.email)
      viewerDomain == userDomain(viewerEmail)
      vis == toLowerCase(IF r.visibility # <<>> THEN r.visibility ELSE CAMPUS)
      embargoUntil == r.embargoUntil
  IN  IF vis = EMBARGO
        THEN IF embargoUntil.isSet /\ now < embargoUntil.at
               THEN FALSE
               ELSE viewerDomain = MSUIIT_DOMAIN
      ELSE IF vis = PUBLIC THEN TRUE
      ELSE IF vis = CAMPUS THEN viewerDomain = MSUIIT_DOMAIN
      ELSE IF vis = PRIVATE
        THEN LET allow == IF r.allowedViewers.isArray
                            THEN r.allowedViewers.items ELSE {}
             IN  viewerEmail \in {toLowerCase(e) : e \in allow}
      ELSE viewerDomain = MSUIIT_DOMAIN

canView(r, user, now) ==
  IF isOwnerStaffOrAdviser(r, user) THEN TRUE
  ELSE canViewByVisibility(r, user, now)

\* repositoryRoutes.js, GET /file/:id/signed: the inline visibility test
repoAllowed(r, user, now) ==
  \/ r.visibility = PUBLIC
  \/ /\ r.visibility = EMBARGO
     /\ r.embargoUntil.isSet
     /\ r.embargoUntil.at <= now
  \/ r.visibility = CAMPUS /\ user.isCampus
  \/ /\ r.visibility = PRIVATE
     /\ r.allowedViewers.isArray
     /\ toLowerCase(user.email) \in
          {toLowerCase(e) : e \in r.allowedViewers.items}

(***************************************************************************)
(* Tokens (jsonwebtoken) and the principal resolver (authMiddleware.js)     *)
(***************************************************************************)
\* no token at all (missing header, missing query parameter, empty string)
NoToken == [kind |-> "none"]

\* a string that is not a JWT
Garbage == [kind |-> "garbage"]

\* a JWT: the secret it was signed with, its registered claims and payload;
\* an absent payload claim is the empty string / empty sequence / FALSE
Jwt(secret, iss, iat, exp, id, email, role, sub, fileId) ==
  [kind |-> "jwt", secret |-> secret, iss |-> iss, iat |-> iat, exp |-> exp,
   id |-> id, email |-> email, role |-> role,
   sub |-> sub, fileId |-> fileId, isCampus |-> FALSE]

\* jwt.verify without the clockTolerance option
jwtVerify_noTolerance(token, secret, issuer, now) ==
  /\ token.kind = "jwt"
  /\ token.secret = secret
  /\ ~ (now >= token.exp)
  /\ (issuer # "" => token.iss = issuer)

\* jwt.verify(token, secret, { issuer, clockTolerance }): TRUE iff it returns
\* the payload; issuer = "" when the option is not passed
jwtVerify(token, secret, issuer, now) ==
  /\ token.kind = "jwt"
  /\ token.secret = secret
  /\ ~ (now >= token.exp + CLOCK_TOLERANCE)
  /\ (issuer # "" => token.iss = issuer)

\* the header's scheme is "Bearer " and what follows it
NoHeader == [scheme |-> "", token |-> NoToken]
BearerHeader(t) == [scheme |-> "Bearer", token |-> t]

MwEnd(status) == [status |-> status, next |-> FALSE, user |-> NoUser]
MwNext(user) == [status |-> 0, next |-> TRUE, user |-> user]

\* req.user as both middlewares build it from a verified bearer payload
bearerUser(decoded) ==
  LET email == toLowerCase(decoded.email)
  IN  [isSet |-> TRUE, id |-> decoded.id, email |-> email,
       role |-> decoded.role, isCampus |-> isMsuiitG(email),
       signedUrl |-> FALSE, sigFileId |-> ""]

\* req.user as authorizeOrSig builds it from a verified ?sig payload
sigUser(payload) ==
  [isSet |-> TRUE, id |-> payload.sub, email |-> toLowerCase(payload.email),
   role |-> payload.role, isCampus |-> payload.isCampus,
   signedUrl |-> TRUE, sigFileId |-> payload.fileId]

\* authorize verifying under either secret
authorize_eitherSecret(allowedRoles, req, now) ==
  LET token == IF req.hdr.scheme = "Bearer" /\ req.hdr.token.kind # "none"
                 THEN req.hdr.token
               ELSE IF req.method = "GET" THEN req.token
               ELSE NoToken
  IN  IF token.kind = "none" THEN MwEnd(401)
      ELSE IF /\ ~ jwtVerify(token, JWT_SECRET, JWT_ISSUER, now)
              /\ ~ jwtVerify(token, SIGNED_URL_SECRET, JWT_ISSUER, now)
        THEN MwEnd(401)
      ELSE IF token.id = "" \/ token.email = <<>> \/ token.role = <<>>
        THEN MwEnd(400)
      ELSE IF allowedRoles # {} /\ token.role \notin allowedRoles
        THEN [MwEnd(403) EXCEPT !.user = bearerUser(token)]
      ELSE MwNext(bearerUser(token))

authorize(allowedRoles, req, now) ==
  LET token == IF req.hdr.scheme = "Bearer" /\ req.hdr.token.kind # "none"
                 THEN req.hdr.token
               ELSE IF req.method = "GET" THEN req.token
               ELSE NoToken
  IN  IF token.kind = "none" THEN MwEnd(401)
      ELSE IF ~ jwtVerify(token, JWT_SECRET, JWT_ISSUER, now) THEN MwEnd(401)
      ELSE IF token.id = "" \/ token.email = <<>> \/ token.role = <<>>
        THEN MwEnd(400)
      ELSE IF allowedRoles # {} /\ token.role \notin allowedRoles
        THEN [MwEnd(403) EXCEPT !.user = bearerUser(token)]
      ELSE MwNext(bearerUser(token))

\* the signed link verified under the bearer secret
authorizeSig_bearerSecret(req, now) ==
  LET sig == req.sig
  IN  IF sig.kind = "none" THEN MwEnd(401)
      ELSE IF ~ jwtVerify(sig, JWT_SECRET, "", now) THEN MwEnd(401)
      ELSE IF sig.fileId = "" \/ sig.sub = "" THEN MwEnd(400)
      ELSE MwNext(sigUser(sig))

\* the signed-link path of authorizeOrSig
authorizeSig(req, now) ==
  LET sig == req.sig
  IN  IF sig.kind = "none" THEN MwEnd(401)
      ELSE IF ~ jwtVerify(sig, SIGNED_URL_SECRET, "", now) THEN MwEnd(401)
      ELSE IF sig.fileId = "" \/ sig.sub = "" THEN MwEnd(400)
      ELSE MwNext(sigUser(sig))

\* the Bearer branch letting a verified token without its claims fall through
\* to ?sig like a token that does not verify
authorizeOrSig_malformedFallsThrough(req, now) ==
  IF req.hdr.scheme = "Bearer"
    THEN LET token == req.hdr.token
         IN  IF /\ jwtVerify(token, JWT_SECRET, JWT_ISSUER, now)
                /\ ~ (token.id = "" \/ token.email = <<>> \/ token.role = <<>>)
               THEN MwNext(bearerUser(token))
               ELSE authorizeSig(req, now)
    ELSE authorizeSig(req, now)

\* the middleware trying ?sig before the Authorization header
authorizeOrSig_sigFirst(req, now) ==
  IF authorizeSig(req, now).next THEN authorizeSig(req, now)
  ELSE IF req.hdr.scheme = "Bearer"
    THEN LET token == req.hdr.token
         IN  IF jwtVerify(token, JWT_SECRET, JWT_ISSUER, now)
               THEN IF token.id = "" \/ token.email = <<>> \/ token.role = <<>>
                      THEN MwEnd(400)
                      ELSE MwNext(bearerUser(token))
               ELSE authorizeSig(req, now)
    ELSE authorizeSig(req, now)

authorizeOrSig(req, now) ==
  IF req.hdr.scheme = "Bearer"
    THEN LET token == req.hdr.token
         IN  IF jwtVerify(token, JWT_SECRET, JWT_ISSUER, now)
               THEN IF token.id = "" \/ token.email = <<>> \/ token.role = <<>>
                      THEN MwEnd(400)
                      ELSE MwNext(bearerUser(token))
               ELSE authorizeSig(req, now)
    ELSE authorizeSig(req, now)

(***************************************************************************)
(* State                                                                    *)
(***************************************************************************)
VARIABLES
  now,    \* the server clock, in seconds
  docs,   \* the Research collection: document id -> stored document or NoDoc
  disk,   \* ids of the documents whose file exists on disk
  link,   \* the signed link a client was last given, or NoToken
  resp,   \* the request being answered and its response, or NoResp
  stream, \* fileStream of the request being answered, and its connection
  handles, \* the number of read handles the process holds open
  served, \* history: the link the client holds was streamed to the end
  inflight, \* the upload-from-approved requests suspended at an await
  users,  \* the User collection: e-mail -> stored account
  pendingTimers, \* student.js pendingTimers: submission id -> timer or NoTimer
  mail    \* the messages handed to the mail transport

vars == <<now, docs, disk, link, resp, stream, handles, served,
          inflight, users, pendingTimers, mail>>

\* the connections two concurrent clients hold
Connections == {1, 2}

\* a connection with no request on it
Free == [phase |-> "none"]

\* no upload-from-approved request is suspended
NoRequests == [c \in Connections |-> Free]

\* an empty User collection
NoUsers == <<>>

\* new Map()
NoTimers == {}

\* no request is being answered
NoResp == [route |-> "none"]

\* a handler runs from the request to its response in one step; the response
\* stays in resp until it is sent, and the next step is taken after that
Idle == resp = NoResp

Response(route, req, mw, status, streamed, minted) ==
  [status |-> status, user |-> mw.user, route |-> route, req |-> req,
   reached |-> mw.next, streamed |-> streamed, minted |-> minted]

\* the middleware ended the request: its status, no handler
Rejected(route, req, mw) == Response(route, req, mw, mw.status, "", NoToken)

\* an id Mongoose cannot cast to an ObjectId: findById rejects with a
\* CastError, which the handlers' try/catch answers
MalformedId == "x"

castsToObjectId(id) == id # MalformedId

\* Research.findById(id).lean()
findById(id) == IF id \in DOMAIN docs THEN docs[id] ELSE NoDoc

\* let fileStream = null / fs.createReadStream(abs) piped to res, with the
\* request's 'close' listener registered
NoStream ==
  [fd |-> "none", piped |-> FALSE, headersSent |-> FALSE, closed |-> FALSE]
Opened ==
  [fd |-> "open", piped |-> TRUE, headersSent |-> FALSE, closed |-> FALSE]

(***************************************************************************)
(* routes/research.js: GET /file/:id, the file streamer                     *)
(***************************************************************************)
\* the streamer without its status test
fileStatus_anyStatus(req, user, r) ==
  IF ~ castsToObjectId(req.id) THEN 500
  ELSE IF ~ r.exists \/ r.filePath = "" THEN 404
  ELSE IF user.signedUrl /\ user.sigFileId # req.id THEN 403
  ELSE IF ~ user.signedUrl /\ ~ canView(r, user, now) THEN 403
  ELSE IF req.id \notin disk THEN 404
  ELSE 200

\* the streamer without the test that binds a link to its document
fileStatus_unboundLink(req, user, r) ==
  IF ~ castsToObjectId(req.id) THEN 500
  ELSE IF ~ r.exists \/ r.filePath = "" \/ r.status # "approved" THEN 404
  ELSE IF ~ user.signedUrl /\ ~ canView(r, user, now) THEN 403
  ELSE IF req.id \notin disk THEN 404
  ELSE 200

fileStatus(req, user, r) ==
  IF ~ castsToObjectId(req.id) THEN 500
  ELSE IF ~ r.exists \/ r.filePath = "" \/ r.status # "approved" THEN 404
  ELSE IF user.signedUrl /\ user.sigFileId # req.id THEN 403
  ELSE IF ~ user.signedUrl /\ ~ canView(r, user, now) THEN 403
  ELSE IF req.id \notin disk THEN 404
  ELSE 200

\* the error member of the JSON body the handler answers with; "" when it
\* streams the file
fileError(req, user, r) ==
  IF ~ castsToObjectId(req.id) THEN "Failed to fetch file"
  ELSE IF ~ r.exists \/ r.filePath = "" \/ r.status # "approved"
    THEN "File not found"
  ELSE IF user.signedUrl /\ user.sigFileId # req.id
    THEN "Signed link does not match file"
  ELSE IF ~ user.signedUrl /\ ~ canView(r, user, now)
    THEN "Not authorized to view this file"
  ELSE IF req.id \notin disk THEN "File not found on disk"
  ELSE ""

\* the handler from the request to its last statement; aborted = the client
\* closed the connection while findById was pending, so the request's
\* 'close' event was emitted before the listener of lines 448-452 was
\* registered, and the pipe writes to a response that is gone
GetFileOn(req, aborted) ==
  LET mw == authorizeOrSig(req, now)
      r  == findById(req.id)
      st == fileStatus(req, mw.user, r)
      opens == mw.next /\ st = 200
  IN  /\ Idle
      /\ resp' = IF ~ mw.next THEN Rejected("GET /research/file/:id", req, mw)
                 ELSE Response("GET /research/file/:id", req, mw, st,
                               IF st = 200 /\ ~ aborted THEN req.id ELSE "",
                               NoToken)
      /\ stream' = [fd |-> IF opens THEN "open" ELSE "none",
                    piped |-> opens /\ ~ aborted,
                    headersSent |-> FALSE,
                    closed |-> aborted]
      /\ handles' = IF opens THEN handles + 1 ELSE handles
      /\ UNCHANGED <<now, docs, disk, link, served, inflight, users, pendingTimers, mail>>

GetFile(req) == GetFileOn(req, FALSE)

(***************************************************************************)
(* routes/student.js and routes/faculty.js: the routes that send a stored   *)
(* document's bytes to the roles of the review workflow                     *)
(***************************************************************************)
\* the handler's answer and, on 200, fs.createReadStream(abs).pipe(res)
Deliver(route, req, mw, status) ==
  /\ resp' = IF ~ mw.next THEN Rejected(route, req, mw)
             ELSE Response(route, req, mw, status,
                           IF status = 200 THEN req.id ELSE "", NoToken)
  /\ stream' = IF mw.next /\ status = 200 THEN Opened ELSE NoStream
  /\ handles' = IF mw.next /\ status = 200 THEN handles + 1 ELSE handles
  /\ UNCHANGED <<now, docs, disk, link, served, inflight, users, pendingTimers, mail>>

\* student.js: canAccess of GET /file/:id
canAccess(r, user) ==
  LET email == toLowerCase(user.email)
      isStudent == email = toLowerCase(r.student)
      isAuthor  == email = toLowerCase(r.author)
      isAdviser == email = toLowerCase(r.adviser)
      isAdmin   == user.role = ADMIN
      isFaculty == user.role = FACULTY
      isApproved == r.status = "approved"
      isMSUIIT  == \/ endsWith(email, MSUIIT_DOMAIN)
                   \/ endsWith(email, <<"@","m","s","u","i","i","t",".","e","d","u",".","p","h">>)
  IN  \/ isStudent
      \/ isAuthor
      \/ isAdviser
      \/ isAdmin
      \/ (isFaculty /\ isApproved)
      \/ (isApproved /\ (\/ r.visibility = PUBLIC
                          \/ (r.visibility = CAMPUS /\ isMSUIIT)))

\* student.js: GET /file/:id
StudentFile(req) ==
  LET mw == authorize({FACULTY, STUDENT, ADMIN, STAFF}, req, now)
      r  == findById(req.id)
      st == IF ~ castsToObjectId(req.id) THEN 500
            ELSE IF ~ r.exists \/ r.filePath = "" THEN 404
            ELSE IF ~ canAccess(r, mw.user) THEN 403
            ELSE IF req.id \notin disk THEN 404
            ELSE 200
  IN  Idle /\ Deliver("GET /student/file/:id", req, mw, st)

\* student.js: canReadItem(user, item); req.user.affiliation is 'MSU-IIT'
\* exactly when req.user.isCampus, and no document of the model has a college
canReadItem(user, item) ==
  IF item.visibility = PUBLIC THEN TRUE
  ELSE IF item.visibility = EMBARGO
    THEN item.embargoUntil.isSet /\ now >= item.embargoUntil.at
  ELSE IF item.visibility = CAMPUS THEN user.isCampus
  ELSE \/ user.role = ADMIN
       \/ user.id = item.uploadedBy
       \/ (item.allowedViewers.isArray
            /\ toLowerCase(user.email) \in item.allowedViewers.items)

\* student.js: GET /file/download/:id
StudentDownload(req) ==
  LET mw == authorize({STUDENT}, req, now)
      r  == findById(req.id)
      st == IF ~ castsToObjectId(req.id) THEN 500
            ELSE IF ~ r.exists \/ r.filePath = "" THEN 404
            ELSE IF ~ canReadItem(mw.user, r) THEN 403
            ELSE IF req.id \notin disk THEN 404
            ELSE 200
  IN  Idle /\ Deliver("GET /student/file/download/:id", req, mw, st)

\* faculty.js: GET /preview/:id, asked without a Range header
FacultyPreview(req) ==
  LET mw == authorize({FACULTY, ADMIN}, req, now)
      r  == findById(req.id)
      email == toLowerCase(mw.user.email)
      isOwner   == email = toLowerCase(r.author)
      isAdviser == email = toLowerCase(r.adviser)
      isAdmin   == mw.user.role = ADMIN
      st == IF ~ castsToObjectId(req.id) THEN 500
            ELSE IF ~ r.exists \/ r.filePath = "" THEN 404
            ELSE IF ~ isOwner /\ ~ isAdviser /\ ~ isAdmin THEN 403
            ELSE IF req.id \notin disk THEN 404
            ELSE 200
  IN  Idle /\ Deliver("GET /faculty/preview/:id", req, mw, st)

(***************************************************************************)
(* the two minters of signed links                                          *)
(***************************************************************************)
\* the link signed with expiresIn "2h" for "2m"
signLink_twoHours(sub, fileId, role, email) ==
  Jwt(SIGNED_URL_SECRET, "", now, now + 60 * SIGNED_URL_TTL,
      "", email, role, sub, fileId)

\* jwt.sign(payload, SIGNED_URL_SECRET, { expiresIn: "2m" })
signLink(sub, fileId, role, email) ==
  Jwt(SIGNED_URL_SECRET, "", now, now + SIGNED_URL_TTL,
      "", email, role, sub, fileId)

\* the response of a minter; the client keeps the link of a 200
Mint(route, req, mw, status, tok) ==
  /\ resp' = Response(route, req, mw, status, "",
                      IF status = 200 THEN tok ELSE NoToken)
  /\ link' = IF status = 200 THEN tok ELSE link
  /\ served' = IF status = 200 THEN FALSE ELSE served
  /\ UNCHANGED <<now, docs, disk, stream, handles, inflight, users, pendingTimers, mail>>

\* routes/research.js: GET /file/:id/signed
GetSigned(req) ==
  LET mw == authorize({}, req, now)
      r  == findById(req.id)
      st == IF ~ castsToObjectId(req.id) THEN 500
            ELSE IF ~ r.exists \/ r.status # "approved" THEN 404
            ELSE IF ~ canView(r, mw.user, now) THEN 403
            ELSE 200
  IN  /\ Idle
      /\ IF ~ mw.next
        THEN /\ resp' = Rejected("GET /research/file/:id/signed", req, mw)
             /\ UNCHANGED <<now, docs, disk, link, served, stream, handles, inflight, users, pendingTimers, mail>>
        ELSE Mint("GET /research/file/:id/signed", req, mw, st,
                  signLink(mw.user.id, req.id, <<>>, <<>>))

\* routes/repositoryRoutes.js: GET /file/:id/signed
RepoGetSigned(req) ==
  LET mw == authorize({}, req, now)
      r  == findById(req.id)
      st == IF ~ castsToObjectId(req.id) THEN 500
            ELSE IF ~ r.exists \/ r.status # "approved" THEN 404
            ELSE IF ~ repoAllowed(r, mw.user, now) THEN 403
            ELSE 200
  IN  /\ Idle
      /\ IF ~ mw.next
        THEN /\ resp' = Rejected("GET /repository/file/:id/signed", req, mw)
             /\ UNCHANGED <<now, docs, disk, link, served, stream, handles, inflight, users, pendingTimers, mail>>
        ELSE Mint("GET /repository/file/:id/signed", req, mw, st,
                  signLink(mw.user.id, req.id, mw.user.role, mw.user.email))

\* the response is sent to its end; a stream is read to the end of the file,
\* pipe ends the response and fs.ReadStream (autoClose) closes the handle
Complete ==
  /\ ~ Idle
  /\ ~ stream.closed
  /\ resp.streamed # "" => (stream.fd = "open" /\ stream.piped)
  /\ resp' = NoResp
  /\ stream' = NoStream
  /\ handles' = IF stream.fd = "open" THEN handles - 1 ELSE handles
  /\ served' = (served \/ (/\ resp.streamed # ""
                            /\ resp.user.signedUrl
                            /\ resp.req.sig = link))
  /\ UNCHANGED <<now, docs, disk, link, inflight, users, pendingTimers, mail>>

(***************************************************************************)
(* routes/repositoryRoutes.js: the query filter builder and GET /           *)
(***************************************************************************)
\* a Mongo filter is a function from keys to conditions: "$or" and "$and"
\* hold a sequence of filters, a field name holds a sequence of operators
Cond(op, arg) == [op |-> op, arg |-> arg]
Eq(x) == <<Cond("eq", x)>>

\* {}: the filter with no key
NoFilter == <<>>

\* { ...a, ...b }: the keys of b override those of a
spread(a, b) == b @@ a

\* the fields the schema declares as arrays
ArrayFields ==
  {"allowedViewers", "coAuthors", "keywords", "categories", "genreTags"}

\* the elements of an array field
elems(k, v) ==
  IF k = "allowedViewers" THEN (IF v.isArray THEN v.items ELSE {}) ELSE v

\* text matches pattern at its first character; "." matches any character
matchesAt(pattern, text) ==
  /\ Len(pattern) <= Len(text)
  /\ \A i \in 1..Len(pattern) :
       pattern[i] = "." \/ LowerChar(pattern[i]) = LowerChar(text[i])

\* new RegExp(pattern, "i").test(text), for patterns of literals and "."
regexTest(pattern, text) ==
  \E k \in 0..Len(text) : matchesAt(pattern, SubSeq(text, k + 1, Len(text)))

\* new RegExp(pattern) does not throw
validRegExp(pattern) == \A i \in 1..Len(pattern) : pattern[i] # "("

\* one operator of a field condition on the stored value v of field k
condHolds(c, k, v) ==
  CASE c.op = "eq" ->
         IF k \in ArrayFields THEN c.arg \in elems(k, v) ELSE v = c.arg
    [] c.op = "neNull" -> v.isSet
    [] c.op = "lte" -> v.isSet /\ v.at <= c.arg
    [] c.op = "in" ->
         IF k \in ArrayFields THEN elems(k, v) \cap c.arg # {}
         ELSE v \in c.arg
    [] c.op = "regex" ->
         IF k \in ArrayFields
           THEN \E e \in elems(k, v) : regexTest(c.arg, e)
           ELSE regexTest(c.arg, v)

\* document r matches the filter
RECURSIVE matches(_, _)
matches(filter, r) ==
  \A k \in DOMAIN filter :
    IF k = "$or"
      THEN \E i \in 1..Len(filter[k]) : matches(filter[k][i], r)
    ELSE IF k = "$and"
      THEN \A i \in 1..Len(filter[k]) : matches(filter[k][i], r)
    ELSE /\ k \in DOMAIN r
         /\ \A i \in 1..Len(filter[k]) : condHolds(filter[k][i], k, r[k])

\* Research.find(filter): the ids of the stored documents that match
find(filter) == {id \in DOMAIN docs : matches(filter, docs[id])}

buildAllowedFilter(user, extra) ==
  LET base == "status" :> Eq("approved")
      ors  == << "visibility" :> Eq(PUBLIC),
                 ("visibility" :> Eq(EMBARGO)) @@
                   ("embargoUntil" :> <<Cond("neNull", 0), Cond("lte", now)>>),
                 ("visibility" :> Eq(PRIVATE)) @@
                   ("allowedViewers" :> Eq(toLowerCase(user.email))) >>
      all  == IF user.isCampus
                THEN Append(ors, "visibility" :> Eq(CAMPUS)) ELSE ors
  IN  spread(spread(base, "$or" :> all), extra)

\* String.prototype.split(",")
RECURSIVE split(_)
split(s) ==
  IF \A i \in 1..Len(s) : s[i] # "," THEN <<s>>
  ELSE LET at == CHOOSE i \in 1..Len(s) :
                   s[i] = "," /\ \A j \in 1..(i - 1) : s[j] # ","
       IN  <<SubSeq(s, 1, at - 1)>> \o split(SubSeq(s, at + 1, Len(s)))

\* toList(v): the trimmed, non-empty parts of a comma-separated value
toList(v) ==
  LET parts == split(v)
  IN  {trim(parts[i]) : i \in 1..Len(parts)} \ {<<>>}

DigitChars == <<"0","1","2","3","4","5","6","7","8","9">>

isDigit(c) == \E d \in 1..10 : DigitChars[d] = c

digitValue(c) == (CHOOSE d \in 1..10 : DigitChars[d] = c) - 1

\* the value of the leading digits of s
RECURSIVE digits(_, _)
digits(s, acc) ==
  IF s = <<>> \/ ~ isDigit(Head(s)) THEN acc
  ELSE digits(Tail(s), 10 * acc + digitValue(Head(s)))

\* parseInt(s, 10); NaN is 0 here: the handler only reads parseInt(..) || n
parseInt(s) ==
  LET u == trimStart(s)
  IN  IF u # <<>> /\ Head(u) = "-" THEN 0 - digits(Tail(u), 0)
      ELSE digits(u, 0)

Max(a, b) == IF a >= b THEN a ELSE b
Min(a, b) == IF a <= b THEN a ELSE b

\* the handler's andParts for a query; a parameter the caller left out is
\* the empty string
andParts(query) ==
  LET q    == trim(query.q)
      year == trim(query.year)
      cats == toList(query.category)
      tags == toList(query.genre)
      rx   == <<Cond("regex", q)>>
  IN  (IF q # <<>>
         THEN << "$or" :> <<"title" :> rx, "author" :> rx, "coAuthors" :> rx,
                            "keywords" :> rx, "year" :> rx, "category" :> rx,
                            "categories" :> rx, "genreTags" :> rx>> >>
         ELSE <<>>)
      \o (IF year # <<>> THEN << "year" :> Eq(year) >> ELSE <<>>)
      \o (IF cats # {}
            THEN << "$or" :> << "category" :> <<Cond("in", cats)>>,
                               "categories" :> <<Cond("in", cats)>> >> >>
            ELSE <<>>)
      \o (IF tags # {}
            THEN << "genreTags" :> <<Cond("in", tags)>> >> ELSE <<>>)
      \o (IF query.role \in {STUDENT, FACULTY, STAFF, ADMIN}
            THEN << "uploaderRole" :> Eq(query.role) >> ELSE <<>>)

\* the caller's parameters passed to the builder as they came
repoExtra_rawQuery(query) ==
  LET parts == andParts(query)
      own   == IF parts # <<>> THEN "$and" :> parts ELSE NoFilter
  IN  IF query.status # "" THEN spread(own, "status" :> Eq(query.status))
      ELSE own

\* andParts.length ? { $and: andParts } : {}
repoExtra(query) ==
  LET parts == andParts(query)
  IN  IF parts # <<>> THEN "$and" :> parts ELSE NoFilter

ListResponse(route, req, mw, status, data, total) ==
  [status |-> status, user |-> mw.user, route |-> route, req |-> req,
   reached |-> mw.next, streamed |-> "", minted |-> NoToken,
   data |-> data, total |-> total]

\* GET /api/repository; sort and page choose among the matched documents,
\* and every limit the handler computes here holds the whole collection
RepoList(req) ==
  LET route   == "GET /repository"
      mw      == authorize({}, req, now)
      query   == req.query
      pageNum == Max(IF parseInt(query.page) # 0
                       THEN parseInt(query.page) ELSE 1, 1)
      lim     == Min(Max(IF parseInt(query.limit) # 0
                           THEN parseInt(query.limit) ELSE 20, 1), 100)
      filter  == buildAllowedFilter(mw.user, repoExtra(query))
      matched == find(filter)
      items   == IF (pageNum - 1) * lim >= Cardinality(matched)
                   THEN {} ELSE matched
  IN  /\ Idle
      /\ UNCHANGED <<now, docs, disk, link, served, stream, handles, inflight, users, pendingTimers, mail>>
      /\ resp' =
           IF ~ mw.next THEN Rejected(route, req, mw)
           ELSE IF ~ validRegExp(trim(query.q))
             THEN ListResponse(route, req, mw, 500, {}, 0)
           ELSE ListResponse(route, req, mw, 200, items, Cardinality(matched))

\* Query.select(fields).lean(): the stored document cut down to the fields
\* the projection names; a field left out reads as undefined
select(r, fields) ==
  IF r.exists THEN [k \in (DOMAIN r) \cap ({"exists"} \cup fields) |-> r[k]]
  ELSE r

\* the projection of GET /api/repository/:id, as far as documents have the
\* fields here
RepoItemFields ==
  {"title", "author", "coAuthors", "year", "keywords", "category",
   "categories", "genreTags", "uploaderRole", "createdAt", "visibility",
   "embargoUntil", "allowedViewers"}

\* the visibility test of GET /api/repository/:id
repoItemAllowed(r, user) ==
  \/ r.visibility = PUBLIC
  \/ r.visibility = EMBARGO /\ r.embargoUntil.isSet /\ r.embargoUntil.at <= now
  \/ r.visibility = CAMPUS /\ user.isCampus
  \/ /\ r.visibility = PRIVATE
     /\ r.allowedViewers.isArray
     /\ toLowerCase(user.email) \in
          {toLowerCase(e) : e \in r.allowedViewers.items}

\* routes/research.js: GET /api/repository/:id
RepoItem(req) ==
  LET route == "GET /repository/:id"
      mw == authorize({}, req, now)
      r  == select(findById(req.id), RepoItemFields)
      st == IF ~ castsToObjectId(req.id) THEN 500
            ELSE IF \/ ~ r.exists
                    \/ "status" \notin DOMAIN r
                    \/ r.status # "approved" THEN 404
            ELSE IF ~ repoItemAllowed(r, mw.user) THEN 403
            ELSE 200
  IN  /\ Idle
      /\ UNCHANGED <<now, docs, disk, link, served, stream, handles,
                     inflight, users, pendingTimers, mail>>
      /\ resp' = IF ~ mw.next THEN Rejected(route, req, mw)
                 ELSE Response(route, req, mw, st, "", NoToken)

\* routes/research.js: GET /api/research, the role-scoped list
ResearchList(req) ==
  LET route  == "GET /research"
      mw     == authorize({}, req, now)
      email  == toLowerCase(mw.user.email)
      userId == mw.user.id
      role   == toLowerCase(mw.user.role)
      base   == "status" :> Eq("approved")
      filter == IF role = STUDENT
                  THEN base @@ ("$or" :> << "student" :> Eq(email),
                                           "author" :> Eq(email),
                                           "uploadedBy" :> Eq(userId) >>)
                ELSE base @@ ("$or" :> << "uploaderRole" :>
                                            <<Cond("in", {STAFF, ADMIN})>>,
                                          "uploadedBy" :> Eq(userId) >>)
      matched == find(filter)
  IN  /\ Idle
      /\ UNCHANGED <<now, docs, disk, link, served, stream, handles, inflight, users, pendingTimers, mail>>
      /\ resp' =
           IF ~ mw.next THEN Rejected(route, req, mw)
           ELSE ListResponse(route, req, mw, 200, matched, Cardinality(matched))

\* routes/research.js: GET /faculty/approved-list (staff, admin)
ApprovedList(req) ==
  LET route == "GET /research/faculty/approved-list"
      mw == authorize({STAFF, ADMIN}, req, now)
      approved == find(("status" :> Eq("approved"))
                         @@ ("submissionType" :> Eq("final"))
                         @@ ("source" :> Eq("faculty-approved")))
  IN  /\ Idle /\ UNCHANGED <<now, docs, disk, link, served, stream, handles, inflight, users, pendingTimers, mail>>
      /\ resp' = IF ~ mw.next THEN Rejected(route, req, mw)
                 ELSE ListResponse(route, req, mw, 200, approved,
                                   Cardinality(approved))

(***************************************************************************)
(* routes/research.js, GET /file/:id: fileStream after the handler returned *)
(***************************************************************************)
\* the pipe writes the first chunk, which sends the response's headers
FirstChunk ==
  /\ stream.fd = "open" /\ stream.piped /\ ~ stream.headersSent
  /\ stream' = [stream EXCEPT !.headersSent = TRUE]
  /\ UNCHANGED <<now, docs, disk, link, served, resp, handles, inflight, users, pendingTimers, mail>>

\* fileStream.on('error'): a read fails and fs.ReadStream closes its handle
\* (autoClose); the listener answers 500 unless the headers were sent
StreamError ==
  /\ stream.fd = "open"
  /\ stream' = [stream EXCEPT !.fd = "closed", !.piped = FALSE,
                               !.headersSent = TRUE]
  /\ resp' = IF stream.headersSent \/ stream.closed THEN resp
             ELSE [resp EXCEPT !.status = 500, !.streamed = ""]
  /\ handles' = handles - 1
  /\ UNCHANGED <<now, docs, disk, link, served, inflight, users, pendingTimers, mail>>

\* fileStream.pipe(res).on('error'): a write to the response fails; pipe
\* unpipes the response, the listener logs and answers 500 unless the headers
\* were sent; fileStream is left as it is
PipeError ==
  /\ stream.fd = "open" /\ stream.piped
  /\ stream' = [stream EXCEPT !.piped = FALSE, !.headersSent = TRUE]
  /\ resp' = IF stream.headersSent THEN resp ELSE [resp EXCEPT !.status = 500]
  /\ UNCHANGED <<now, docs, disk, link, served, handles, inflight, users, pendingTimers, mail>>

\* req.on('close', () => { if (fileStream) fileStream.destroy() })
onRequestClose(st) ==
  [st EXCEPT !.fd = IF @ = "open" THEN "closed" ELSE @,
             !.piped = FALSE, !.closed = TRUE]

\* the request's 'close' event after the handler returned: the client aborts
\* or the connection ends
RequestClosed ==
  /\ stream.fd # "none" /\ ~ stream.closed
  /\ stream' = onRequestClose(stream)
  /\ handles' = IF stream.fd = "open" /\ stream'.fd # "open"
                  THEN handles - 1 ELSE handles
  /\ UNCHANGED <<now, docs, disk, link, served, resp, inflight, users, pendingTimers, mail>>

\* the connection is closed: nothing more happens for the request
Settle ==
  /\ ~ Idle
  /\ stream.closed
  /\ resp' = NoResp
  /\ stream' = NoStream
  /\ UNCHANGED <<now, docs, disk, link, served, handles, inflight, users, pendingTimers, mail>>

(***************************************************************************)
(* routes/researchAdmin.js: the staff writes the evaluator depends on       *)
(***************************************************************************)
WriteResponse(route, req, mw, status) ==
  Response(route, req, mw, status, "", NoToken)

\* the e-mails of a body's allowedViewers: an array as it is, anything else
\* through String(x || "").split(","), which the model's bodies leave empty
bodyEmails(allowedViewers) ==
  IF allowedViewers.isArray THEN allowedViewers.items ELSE {}

\* the visibility block both PUT handlers share: the fields it sets, or the
\* status it ends the request with; strict = PUT /:id/visibility, which also
\* refuses an empty allow-list
visibilityUpdate(body, strict) ==
  LET lowered == {toLowerCase(e) : e \in bodyEmails(body.allowedViewers)}
  IN  IF body.visibility \notin ALLOWED_VIS THEN [status |-> 400]
      ELSE IF body.visibility = EMBARGO
        THEN IF ~ body.embargoUntil.isSet THEN [status |-> 400]
             ELSE IF body.embargoUntil.at = NaN THEN [status |-> 400]
             ELSE [status |-> 200, visibility |-> EMBARGO,
                   embargoUntil |-> body.embargoUntil,
                   allowedViewers |-> ArrayOf({})]
      ELSE IF body.visibility = PRIVATE
        THEN IF strict /\ lowered = {} THEN [status |-> 400]
             ELSE [status |-> 200, visibility |-> PRIVATE,
                   embargoUntil |-> NoDate, allowedViewers |-> ArrayOf(lowered)]
      ELSE [status |-> 200, visibility |-> body.visibility,
            embargoUntil |-> NoDate, allowedViewers |-> ArrayOf({})]

applyVisibility(r, u) ==
  [r EXCEPT !.visibility = u.visibility, !.embargoUntil = u.embargoUntil,
            !.allowedViewers = u.allowedViewers]

\* PUT /api/research-admin/:id/visibility
PutVisibility(req) ==
  LET route == "PUT /research-admin/:id/visibility"
      mw == authorize({ADMIN, STAFF}, req, now)
      u  == visibilityUpdate(req.body, TRUE)
      r  == findById(req.id)
  IN  /\ Idle
      /\ UNCHANGED <<now, disk, link, served, stream, handles, inflight, users, pendingTimers, mail>>
      /\ IF ~ mw.next
           THEN resp' = Rejected(route, req, mw) /\ docs' = docs
         ELSE IF u.status # 200
           THEN resp' = WriteResponse(route, req, mw, u.status) /\ docs' = docs
         ELSE IF ~ r.exists
           THEN resp' = WriteResponse(route, req, mw, 404) /\ docs' = docs
         ELSE /\ resp' = WriteResponse(route, req, mw, 200)
              /\ docs' = [docs EXCEPT ![req.id] = applyVisibility(r, u)]

\* PUT /api/research-admin/:id, the fields that matter to access control:
\* status, and the optional visibility block
PutResearch(req) ==
  LET route == "PUT /research-admin/:id"
      mw == authorize({ADMIN, STAFF}, req, now)
      hasVis == req.body.visibility # <<>>
      u  == visibilityUpdate(req.body, FALSE)
      r  == findById(req.id)
      r1 == IF req.body.status \in ALLOWED_STATUS
              THEN [r EXCEPT !.status = req.body.status] ELSE r
      r2 == IF hasVis THEN applyVisibility(r1, u) ELSE r1
  IN  /\ Idle
      /\ UNCHANGED <<now, disk, link, served, stream, handles, inflight, users, pendingTimers, mail>>
      /\ IF ~ mw.next
           THEN resp' = Rejected(route, req, mw) /\ docs' = docs
         ELSE IF hasVis /\ u.status # 200
           THEN resp' = WriteResponse(route, req, mw, u.status) /\ docs' = docs
         ELSE IF ~ r.exists
           THEN resp' = WriteResponse(route, req, mw, 404) /\ docs' = docs
         ELSE /\ resp' = WriteResponse(route, req, mw, 200)
              /\ docs' = [docs EXCEPT ![req.id] = r2]

(***************************************************************************)
(* The writes that create documents: doc.save() / Research.create(doc)      *)
(***************************************************************************)
\* document validation without the schema's pre('validate') hook
validates_noHook(doc) ==
  /\ doc.visibility \in ALLOWED_VIS
  /\ doc.status \in ALLOWED_STATUS
  /\ ~ (doc.embargoUntil.isSet /\ doc.embargoUntil.at = NaN)

\* what save() and create() check before they store: the enums, the cast of
\* embargoUntil to Date (an Invalid Date does not cast) and the schema's
\* pre('validate') hook
validates(doc) ==
  /\ doc.visibility \in ALLOWED_VIS
  /\ doc.status \in ALLOWED_STATUS
  /\ ~ (doc.embargoUntil.isSet /\ doc.embargoUntil.at = NaN)
  /\ ~ (doc.visibility = EMBARGO /\ ~ doc.embargoUntil.isSet)

\* the schema's pre('save') hook
preSave(doc) ==
  [doc EXCEPT !.allowedViewers =
     IF @.isArray THEN ArrayOf({toLowerCase(e) : e \in @.items}) ELSE @]

\* the document a create route builds
NewDoc(user, status, visibility, embargoUntil, allowedViewers, filePath, source) ==
  [exists |-> TRUE, status |-> status, visibility |-> visibility,
   embargoUntil |-> embargoUntil, allowedViewers |-> allowedViewers,
   author |-> user.email,
   student |-> IF user.role = STUDENT THEN user.email ELSE <<>>,
   adviser |-> <<>>,
   uploadedBy |-> user.id,
   filePath |-> filePath,
   title |-> <<"S","o","i","l">>,
   coAuthors |-> {},
   year |-> <<"2","0","2","4">>,
   keywords |-> {},
   category |-> <<>>,
   categories |-> {},
   genreTags |-> {},
   uploaderRole |-> user.role,
   source |-> source,
   submissionType |-> "draft",
   createdAt |-> now]

\* the collection has room for one more document
HasRoom == \E id \in DOMAIN docs : ~ docs[id].exists

\* the _id the new document gets
NewId == CHOOSE id \in DOMAIN docs : ~ docs[id].exists

\* save()/create() and the answer of the route: the document is stored and
\* the route answers ok, or validation throws and the catch answers 500
Create(route, req, mw, doc, ok) ==
  IF validates(doc)
    THEN /\ resp' = WriteResponse(route, req, mw, ok)
         /\ docs' = [docs EXCEPT ![NewId] = preSave(doc)]
         /\ disk' = IF doc.filePath # "" THEN disk \cup {NewId} ELSE disk
    ELSE /\ resp' = WriteResponse(route, req, mw, 500)
         /\ UNCHANGED <<docs, disk>>

\* a create route ends without storing anything
Refused(route, req, mw, status) ==
  /\ resp' = IF mw.next THEN WriteResponse(route, req, mw, status)
             ELSE Rejected(route, req, mw)
  /\ UNCHANGED <<docs, disk>>

\* vis === 'embargo' && embargoUntil ? new Date(embargoUntil) : null
embargoDate(vis, embargoUntil) ==
  IF vis = EMBARGO /\ embargoUntil.isSet THEN embargoUntil ELSE NoDate

\* routes/research.js: POST /upload (staff, admin), with a file, a title and
\* an author
UploadStaff(req) ==
  LET route == "POST /research/upload"
      mw  == authorize({STAFF, ADMIN}, req, now)
      low == toLowerCase(req.body.visibility)
      vis == IF low \in ALLOWED_VIS THEN low ELSE CAMPUS
  IN  /\ Idle /\ HasRoom
      /\ UNCHANGED <<now, link, served, stream, handles, inflight, users, pendingTimers, mail>>
      /\ IF ~ mw.next THEN Refused(route, req, mw, 0)
         ELSE Create(route, req, mw,
                     NewDoc(mw.user, "approved", vis,
                            embargoDate(low, req.body.embargoUntil),
                            ArrayOf({}), "/uploads/research/n.pdf", ""),
                     201)

\* routes/researchAdmin.js: POST /upload (staff, admin), with a file, a title
\* and an author
UploadAdmin(req) ==
  LET route == "POST /research-admin/upload"
      mw  == authorize({STAFF, ADMIN}, req, now)
      vis == IF req.body.visibility \in ALLOWED_VIS
               THEN req.body.visibility ELSE PUBLIC
      emb == embargoDate(vis, req.body.embargoUntil)
      viewers == IF vis = PRIVATE
                   THEN {toLowerCase(e) : e \in bodyEmails(req.body.allowedViewers)}
                 ELSE {}
  IN  /\ Idle /\ HasRoom
      /\ UNCHANGED <<now, link, served, stream, handles, inflight, users, pendingTimers, mail>>
      /\ IF ~ mw.next THEN Refused(route, req, mw, 0)
         ELSE IF vis = EMBARGO /\ ~ emb.isSet THEN Refused(route, req, mw, 400)
         ELSE Create(route, req, mw,
                     NewDoc(mw.user, "approved", vis, emb, ArrayOf(viewers),
                            "/uploads/research/n.pdf", "staff-upload"),
                     200)

\* routes/researchAdmin.js: POST /import/:id (staff, admin)
Import(req) ==
  LET route == "POST /research-admin/import/:id"
      mw  == authorize({STAFF, ADMIN}, req, now)
      src == findById(req.id)
      vis == IF req.body.visibility \in ALLOWED_VIS
               THEN req.body.visibility ELSE CAMPUS
      viewers == IF req.body.allowedViewers.isArray
                   THEN {toLowerCase(e) : e \in req.body.allowedViewers.items}
                 ELSE {}
  IN  /\ Idle /\ HasRoom
      /\ UNCHANGED <<now, link, served, stream, handles, inflight, users, pendingTimers, mail>>
      /\ IF ~ mw.next THEN Refused(route, req, mw, 0)
         ELSE IF ~ castsToObjectId(req.id) THEN Refused(route, req, mw, 500)
         ELSE IF \/ ~ src.exists
                 \/ src.status # "approved"
                 \/ src.source # "faculty-approved"
           THEN Refused(route, req, mw, 404)
         ELSE IF req.id \notin disk THEN Refused(route, req, mw, 404)
         ELSE Create(route, req, mw,
                     [NewDoc(mw.user, "approved", vis,
                             embargoDate(vis, req.body.embargoUntil),
                             ArrayOf(viewers), "/uploads/research/n.pdf",
                             "staff-upload")
                        EXCEPT !.author = src.author, !.uploaderRole = STAFF],
                     201)

\* routes/staff.js: POST /upload (staff, admin), metadata only, with a title
\* and an author
UploadMetadata(req) ==
  LET route == "POST /staff/upload"
      mw  == authorize({STAFF, ADMIN}, req, now)
      vis == IF req.body.visibility \in ALLOWED_VIS
               THEN req.body.visibility ELSE PUBLIC
  IN  /\ Idle /\ HasRoom
      /\ UNCHANGED <<now, link, served, stream, handles, inflight, users, pendingTimers, mail>>
      /\ IF ~ mw.next THEN Refused(route, req, mw, 0)
         ELSE Create(route, req, mw,
                     [NewDoc(mw.user, "approved", vis,
                             embargoDate(vis, req.body.embargoUntil),
                             ArrayOf({}), "", "staff-upload")
                        EXCEPT !.uploaderRole = STAFF],
                     201)

\* routes/student.js: FIVE_MIN_MS, in seconds
FIVE_MIN == 300

\* the messages of sendImmediateReceipt and of sendFn
ReceiptMail(id) == [at |-> now, kind |-> "receipt", id |-> id]
FinalMail(id) == [at |-> now, kind |-> "final", id |-> id]

\* queueFinalEmailInMemory: clearTimeout of the id's timer, then setTimeout
queueFinalEmail(timers, submissionId, delay) ==
  {t \in timers : t.id # submissionId}
    \cup {[id |-> submissionId, due |-> now + delay]}

\* cancelFinalEmail, in-memory branch
cancelFinalEmail(timers, submissionId) ==
  {t \in timers : t.id # submissionId}

\* routes/student.js: POST /upload (student), with a file, a title and an
\* abstract
UploadStudent(req) ==
  LET route == "POST /student/upload"
      mw  == authorize({STUDENT}, req, now)
      vis == IF req.body.visibility \in ALLOWED_VIS
               THEN req.body.visibility ELSE PRIVATE
      newResearch ==
        [NewDoc(mw.user, "pending", vis,
                embargoDate(vis, req.body.embargoUntil),
                ArrayOf({}), "/uploads/research/n.pdf", "student-upload")
           EXCEPT !.submissionType =
                    IF req.body.submissionType = "final"
                      THEN "final" ELSE "draft"]
  IN  /\ Idle /\ HasRoom
      /\ UNCHANGED <<now, link, served, stream, handles, inflight, users>>
      /\ IF ~ mw.next
           THEN /\ Refused(route, req, mw, 0)
                /\ UNCHANGED <<pendingTimers, mail>>
         ELSE /\ Create(route, req, mw, newResearch, 201)
              /\ IF validates(newResearch)
                   THEN /\ mail' = mail \cup {ReceiptMail(NewId)}
                        /\ pendingTimers' =
                             queueFinalEmail(pendingTimers, NewId, FIVE_MIN)
                 ELSE UNCHANGED <<pendingTimers, mail>>

\* routes/student.js: PUT /revise/:id (student)
Revise(req) ==
  LET route == "PUT /student/revise/:id"
      mw == authorize({STUDENT}, req, now)
      found == findById(req.id)
      research == IF found.exists /\ found.student = mw.user.email
                    THEN found ELSE NoDoc
      elapsed == now - research.createdAt
      revised == [research EXCEPT
                    !.status = "pending",
                    !.submissionType =
                       IF req.body.submissionType \in {"draft", "final"}
                         THEN req.body.submissionType ELSE @]
      answer(status) ==
        /\ resp' = IF mw.next THEN WriteResponse(route, req, mw, status)
                   ELSE Rejected(route, req, mw)
        /\ UNCHANGED <<docs, pendingTimers>>
  IN  /\ Idle
      /\ UNCHANGED <<now, disk, link, served, stream, handles, inflight,
                     users, mail>>
      /\ IF ~ mw.next THEN answer(0)
         ELSE IF ~ castsToObjectId(req.id) THEN answer(500)
         ELSE IF ~ research.exists THEN answer(404)
         ELSE IF elapsed > FIVE_MIN THEN answer(403)
         ELSE IF ~ validates(revised) THEN answer(500)
         ELSE /\ docs' = [docs EXCEPT ![req.id] = preSave(revised)]
              /\ pendingTimers' =
                   queueFinalEmail(cancelFinalEmail(pendingTimers, req.id),
                                   req.id, Max(0, FIVE_MIN - elapsed))
              /\ resp' = WriteResponse(route, req, mw, 200)

\* routes/student.js: DELETE /delete/:id (student)
Delete(req) ==
  LET route == "DELETE /student/delete/:id"
      mw == authorize({STUDENT}, req, now)
      research == findById(req.id)
      elapsed == now - research.createdAt
      answer(status) ==
        /\ resp' = IF mw.next THEN WriteResponse(route, req, mw, status)
                   ELSE Rejected(route, req, mw)
        /\ UNCHANGED <<docs, disk, pendingTimers>>
  IN  /\ Idle
      /\ UNCHANGED <<now, link, served, stream, handles, inflight, users,
                     mail>>
      /\ IF ~ mw.next THEN answer(0)
         ELSE IF ~ castsToObjectId(req.id) THEN answer(500)
         ELSE IF ~ research.exists THEN answer(404)
         ELSE IF research.student # mw.user.email THEN answer(403)
         ELSE IF elapsed > FIVE_MIN THEN answer(403)
         ELSE /\ pendingTimers' = cancelFinalEmail(pendingTimers, req.id)
              /\ disk' = disk \ {req.id}
              /\ docs' = [docs EXCEPT ![req.id] = NoDoc]
              /\ resp' = WriteResponse(route, req, mw, 200)

\* the callback of setTimeout in queueFinalEmailInMemory runs: the timer
\* leaves the map and sendFn sends, or returns without sending
TimerFires(t) ==
  LET sub == findById(t.id)
      elapsedMs == now - sub.createdAt
  IN  /\ t \in pendingTimers
      /\ now >= t.due
      /\ pendingTimers' = pendingTimers \ {t}
      /\ mail' = IF ~ sub.exists THEN mail
                 ELSE IF elapsedMs < FIVE_MIN THEN mail
                 ELSE mail \cup {FinalMail(t.id)}
      /\ UNCHANGED <<now, docs, disk, link, served, resp, stream, handles,
                     inflight, users>>

\* routes/faculty.js: POST /my-research (faculty, admin), with a file, a
\* title and an abstract
UploadFaculty(req) ==
  LET route == "POST /faculty/my-research"
      mw  == authorize({FACULTY, ADMIN}, req, now)
      low == toLowerCase(req.body.visibility)
      vis == IF low \in ALLOWED_VIS THEN low ELSE PRIVATE
      final == req.body.submissionType = "final"
  IN  /\ Idle /\ HasRoom
      /\ UNCHANGED <<now, link, served, stream, handles, inflight, users, pendingTimers, mail>>
      /\ IF ~ mw.next THEN Refused(route, req, mw, 0)
         ELSE Create(route, req, mw,
                     [NewDoc(mw.user, IF final THEN "approved" ELSE "pending",
                             vis, embargoDate(vis, req.body.embargoUntil),
                             ArrayOf({}), "/uploads/research/n.pdf",
                             IF final THEN "faculty-approved"
                             ELSE "faculty-upload")
                        EXCEPT !.submissionType =
                                 IF final THEN "final" ELSE "draft"],
                     200)

\* routes/research.js: POST /upload-from-approved (staff, admin), with a
\* sourceId, a title and an author
UploadFromApproved(req) ==
  LET route == "POST /research/upload-from-approved"
      mw  == authorize({STAFF, ADMIN}, req, now)
      sourceId == req.body.sourceId
      src == findById(sourceId)
  IN  /\ Idle /\ HasRoom
      /\ UNCHANGED <<now, link, served, stream, handles, inflight, users, pendingTimers, mail>>
      /\ IF ~ mw.next THEN Refused(route, req, mw, 0)
         ELSE IF ~ castsToObjectId(sourceId) THEN Refused(route, req, mw, 500)
         ELSE IF \/ ~ src.exists
                 \/ src.status # "approved"
                 \/ src.source # "faculty-approved"
           THEN Refused(route, req, mw, 404)
         ELSE IF src.filePath = "" \/ sourceId \notin disk
           THEN Refused(route, req, mw, 404)
         ELSE /\ resp' = WriteResponse(route, req, mw, 200)
              /\ docs' = [docs EXCEPT
                            ![NewId] = preSave([NewDoc(mw.user, "approved", CAMPUS,
                                                       NoDate, ArrayOf({}),
                                                       "/uploads/research/n.pdf",
                                                       "faculty-approved")
                                                  EXCEPT !.submissionType = "final"]),
                            ![sourceId] = [@ EXCEPT !.source = "faculty-approved-used"]]
              /\ disk' = disk \cup {NewId}

\* POST /upload-from-approved as the event loop runs it when two requests are
\* open: the handler is suspended at await Research.create and at await
\* Research.updateOne, and the other request's handler runs in between.
\* AttachFind is the handler up to the first of these awaits
Suspended(status, user, sourceId, phase) ==
  [status |-> status, user |-> user, sourceId |-> sourceId, phase |-> phase]

AttachFind(c, req) ==
  LET mw  == authorize({STAFF, ADMIN}, req, now)
      sourceId == req.body.sourceId
      src == findById(sourceId)
      answer(status) == Suspended(status, mw.user, sourceId, "answered")
  IN  /\ inflight[c].phase \in {"none", "answered"}
      /\ inflight' = [inflight EXCEPT ![c] =
           IF ~ mw.next THEN answer(mw.status)
           ELSE IF ~ castsToObjectId(sourceId) THEN answer(500)
           ELSE IF \/ ~ src.exists
                   \/ src.status # "approved"
                   \/ src.source # "faculty-approved"
             THEN answer(404)
           ELSE IF src.filePath = "" \/ sourceId \notin disk THEN answer(404)
           ELSE Suspended(0, mw.user, sourceId, "found")]
      /\ UNCHANGED <<now, docs, disk, link, served, resp, stream, handles,
                     users, pendingTimers, mail>>

\* Research.create resolves: the copy is stored
AttachCreate(c) ==
  /\ inflight[c].phase = "found"
  /\ HasRoom
  /\ docs' = [docs EXCEPT
                ![NewId] = preSave([NewDoc(inflight[c].user, "approved", CAMPUS,
                                           NoDate, ArrayOf({}),
                                           "/uploads/research/n.pdf",
                                           "faculty-approved")
                                      EXCEPT !.submissionType = "final"])]
  /\ disk' = disk \cup {NewId}
  /\ inflight' = [inflight EXCEPT ![c].phase = "created"]
  /\ UNCHANGED <<now, link, served, resp, stream, handles,
                 users, pendingTimers, mail>>

\* Research.updateOne({ _id: sourceId, source: "faculty-approved" }, ...)
\* resolves and the handler answers res.json(...)
AttachConsume(c) ==
  LET sourceId == inflight[c].sourceId
  IN  /\ inflight[c].phase = "created"
      /\ docs' = IF docs[sourceId].exists
                    /\ docs[sourceId].source = "faculty-approved"
                   THEN [docs EXCEPT
                           ![sourceId].source = "faculty-approved-used"]
                 ELSE docs
      /\ inflight' = [inflight EXCEPT ![c].phase = "answered",
                                      ![c].status = 200]
      /\ UNCHANGED <<now, disk, link, served, resp, stream, handles,
                     users, pendingTimers, mail>>

(***************************************************************************)
(* the clock                                                                *)
(***************************************************************************)
Tick(dt) ==
  /\ Idle
  /\ now + dt <= MaxClock
  /\ now' = now + dt
  /\ UNCHANGED <<docs, disk, link, served, resp, stream, handles,
                 inflight, users, pendingTimers, mail>>

(***************************************************************************)
(* Inputs: users, their bearer tokens, documents, requests                  *)
(***************************************************************************)
GMAIL == <<"@","g","m","a","i","l",".","c","o","m">>

\* an address that holds the institutional domain but does not end with it
LOOKALIKE == MSUIIT_DOMAIN \o <<".","c","o">>

UserRec(id, email, role) == [id |-> id, email |-> email, role |-> role]

Ann  == UserRec("u1", <<"a","n","n">> \o MSUIIT_DOMAIN, STUDENT)
Eve  == UserRec("u2", <<"e","v","e">> \o GMAIL, STUDENT)
Sue  == UserRec("u3", <<"s","u","e">> \o GMAIL, STAFF)
Adam == UserRec("u4", <<"a","d","a","m">> \o GMAIL, ADMIN)
Otto == UserRec("u5", <<"o","t","t","o">> \o GMAIL, STUDENT)
Stu  == UserRec("u6", <<"s","t","u">> \o GMAIL, STUDENT)
Adv  == UserRec("u7", <<"a","d","v">> \o GMAIL, FACULTY)
Upl  == UserRec("u8", <<"u","p","l">> \o GMAIL, STUDENT)
Bea  == UserRec("u9", <<"B","e","a">> \o
                      <<"@","G",".","M","s","u","i","i","t",".","E","d","u",".","P","H">>,
                      STUDENT)
Lou  == UserRec("u10", <<"l","o","u">> \o LOOKALIKE, STUDENT)

\* a faculty member who is neither author nor adviser of the documents
Fay == UserRec("u11", <<"f","a","y">> \o GMAIL, FACULTY)

\* auth.js signAuthToken(user), issued when the clock started
BearerOf(u) ==
  Jwt(JWT_SECRET, JWT_ISSUER, 0, AUTH_TOKEN_TTL, u.id, u.email, u.role, "", "")

DocIds == {"d1", "d2"}

\* an id no document has
AbsentId == "d0"

\* the instants an embargo is set to end at
EmbargoInstants == {65}

\* the clock is read at instants that fall on both sides of the embargo and
\* of a link's last valid second (mint + TTL + CLOCK_TOLERANCE - 1)
TickSteps == {64, 65}

Doc(status, visibility, embargoUntil, allowedViewers) ==
  [exists |-> TRUE, status |-> status, visibility |-> visibility,
   embargoUntil |-> embargoUntil, allowedViewers |-> allowedViewers,
   author |-> <<"O","t","t","o">> \o GMAIL,
   student |-> <<"S","T","U">> \o GMAIL,
   adviser |-> <<"A","d","v">> \o GMAIL,
   uploadedBy |-> "u8",
   filePath |-> "/uploads/research/f.pdf",
   title |-> <<"S","o","i","l">>,
   coAuthors |-> {},
   year |-> <<"2","0","2","4">>,
   keywords |-> {<<"c","l","a","y">>},
   category |-> <<"t","h","e","s","i","s">>,
   categories |-> {},
   genreTags |-> {},
   uploaderRole |-> STUDENT,
   source |-> "",
   submissionType |-> "draft",
   createdAt |-> 0]

GetReq(hdr, sig, token, id) ==
  [hdr |-> hdr, sig |-> sig, token |-> token, method |-> "GET", id |-> id]

PutReq(hdr, id, body) ==
  [hdr |-> hdr, sig |-> NoToken, token |-> NoToken, method |-> "PUT",
   id |-> id, body |-> body]

Body(status, visibility, embargoUntil, allowedViewers) ==
  [status |-> status, visibility |-> visibility,
   embargoUntil |-> embargoUntil, allowedViewers |-> allowedViewers]

(***************************************************************************)
(* Spec: the delivery subsystem over time -- staff writes, minting,         *)
(* fetching with a bearer token or a held link, the clock                   *)
(***************************************************************************)
Readers == {Ann, Eve, Sue, Otto}

\* an allow-list as a caller types it
TypedViewers == {<<"A","n","n">> \o MSUIIT_DOMAIN}

VisibilityBodies ==
  {Body("", PUBLIC, NoDate, NotArray),
   Body("", CAMPUS, NoDate, NotArray),
   Body("", EMBARGO, NoDate, NotArray),
   Body("", PRIVATE, NoDate, NotArray),
   Body("", <<"o","p","e","n">>, NoDate, NotArray)}
  \cup {Body("", EMBARGO, DateAt(t), NotArray) : t \in EmbargoInstants}
  \cup {Body("", PRIVATE, NoDate, ArrayOf(TypedViewers))}

ResearchBodies ==
  {Body(st, <<>>, NoDate, NotArray) : st \in {"pending", "approved", "rejected", "done"}}
  \cup {Body("", PRIVATE, NoDate, NotArray), Body("", EMBARGO, NoDate, NotArray)}

Init ==
  /\ now = 0
  /\ docs = [id \in DocIds |->
               IF id = "d1" THEN Doc("pending", CAMPUS, NoDate, ArrayOf({}))
               ELSE Doc("approved", PUBLIC, NoDate, ArrayOf({}))]
  /\ disk = DocIds
  /\ link = NoToken
  /\ resp = NoResp
  /\ stream = NoStream
  /\ handles = 0
  /\ served = FALSE
  /\ inflight = NoRequests
  /\ users = NoUsers
  /\ pendingTimers = NoTimers
  /\ mail = {}

FetchWithBearer ==
  \E u \in Readers, id \in DocIds \cup {AbsentId, MalformedId} :
    GetFile(GetReq(BearerHeader(BearerOf(u)), NoToken, NoToken, id))

FetchWithLink ==
  \E id \in DocIds :
    link # NoToken /\ GetFile(GetReq(NoHeader, link, NoToken, id))

\* a reader sends the bearer token together with the link the client holds
FetchWithBoth ==
  \E u \in Readers, id \in DocIds :
    link # NoToken /\ GetFile(GetReq(BearerHeader(BearerOf(u)), link, NoToken, id))

MintResearch ==
  \E u \in Readers, id \in DocIds :
    GetSigned(GetReq(BearerHeader(BearerOf(u)), NoToken, NoToken, id))

MintRepository ==
  \E u \in Readers, id \in DocIds :
    RepoGetSigned(GetReq(BearerHeader(BearerOf(u)), NoToken, NoToken, id))

StaffSetsVisibility ==
  \E u \in {Sue}, b \in VisibilityBodies :
    PutVisibility(PutReq(BearerHeader(BearerOf(u)), "d1", b))

StaffUpdates ==
  \E b \in ResearchBodies :
    PutResearch(PutReq(BearerHeader(BearerOf(Sue)), "d1", b))

ClockAdvances == \E dt \in TickSteps : Tick(dt)

Next ==
  \/ FetchWithBearer
  \/ FetchWithLink
  \/ FetchWithBoth
  \/ MintResearch
  \/ MintRepository
  \/ StaffSetsVisibility
  \/ StaffUpdates
  \/ Complete
  \/ ClockAdvances

Spec == Init /\ [][Next]_vars

(***************************************************************************)
(* SpecEval: the evaluator over documents and principals -- the stored      *)
(* document is drawn from every visibility, embargo and allow-list shape,   *)
(* and every principal fetches it as the clock advances                     *)
(***************************************************************************)
Principals == {Ann, Bea, Eve, Lou, Sue, Adam, Otto, Stu, Adv, Upl}

\* stored visibility values: the four classes, a capitalised legacy value,
\* a missing field and a value outside the enumeration
StoredVisibilities ==
  ALLOWED_VIS \cup {<<"C","a","m","p","u","s">>, <<>>, <<"o","p","e","n">>}

StoredViewers ==
  {NotArray,
   ArrayOf({}),
   ArrayOf({<<"A","n","n">> \o
              <<"@","G",".","M","S","U","I","I","T",".","E","D","U",".","P","H">>,
            Eve.email}),
   ArrayOf({<<"b","e","a">> \o MSUIIT_DOMAIN})}

EvalDocs ==
  {Doc("approved", v, e, a) :
     v \in StoredVisibilities,
     e \in {NoDate} \cup {DateAt(t) : t \in EmbargoInstants},
     a \in StoredViewers}

InitEval ==
  /\ now = 0
  /\ \E d \in EvalDocs :
       docs = [id \in DocIds |->
                 IF id = "d1" THEN d
                 ELSE Doc("approved", PUBLIC, NoDate, ArrayOf({}))]
  /\ disk = DocIds
  /\ link = NoToken
  /\ resp = NoResp
  /\ stream = NoStream
  /\ handles = 0
  /\ served = FALSE
  /\ inflight = NoRequests
  /\ users = NoUsers
  /\ pendingTimers = NoTimers
  /\ mail = {}

EvalFetch ==
  \E u \in Principals :
    GetFile(GetReq(BearerHeader(BearerOf(u)), NoToken, NoToken, "d1"))

NextEval ==
  \/ EvalFetch
  \/ ClockAdvances
  \/ Complete

SpecEval == InitEval /\ [][NextEval]_vars

(***************************************************************************)
(* SpecAuth: the principal resolver over credentials -- every route is      *)
(* asked with every combination of header, ?token and ?sig                  *)
(***************************************************************************)
\* a bearer token that reaches its expiry while the clock runs
ShortBearer(u) == [BearerOf(u) EXCEPT !.exp = 55]

BearerLike ==
  {BearerOf(Ann), BearerOf(Eve), BearerOf(Sue), ShortBearer(Ann), Garbage,
   [BearerOf(Sue) EXCEPT !.secret = "guessed"],
   [BearerOf(Sue) EXCEPT !.secret = SIGNED_URL_SECRET],
   [BearerOf(Sue) EXCEPT !.iss = ""],
   [BearerOf(Sue) EXCEPT !.id = ""],
   [BearerOf(Sue) EXCEPT !.email = <<>>],
   [BearerOf(Sue) EXCEPT !.role = <<>>]}

\* a link as GET /research/file/:id/signed signs it at instant t
LinkAt(t, sub, fileId) ==
  Jwt(SIGNED_URL_SECRET, "", t, t + SIGNED_URL_TTL, "", <<>>, <<>>, sub, fileId)

\* a link as GET /repository/file/:id/signed signs it at instant t for u
RepoLinkAt(t, u, fileId) ==
  Jwt(SIGNED_URL_SECRET, "", t, t + SIGNED_URL_TTL, "", u.email, u.role,
      u.id, fileId)

LinkLike ==
  {LinkAt(0, "u2", "d1"), LinkAt(0, "u2", "d2"), RepoLinkAt(0, Sue, "d1"),
   Garbage, BearerOf(Sue),
   [LinkAt(0, "u2", "d1") EXCEPT !.secret = "guessed"],
   [LinkAt(0, "u2", "d1") EXCEPT !.secret = JWT_SECRET],
   [LinkAt(0, "u2", "d1") EXCEPT !.sub = ""],
   [LinkAt(0, "u2", "d1") EXCEPT !.fileId = ""]}

Headers ==
  {NoHeader}
  \cup {BearerHeader(t) : t \in BearerLike \cup {NoToken, LinkAt(0, "u2", "d1"),
                                                  RepoLinkAt(0, Sue, "d1")}}
  \cup {[scheme |-> "Basic", token |-> BearerOf(Sue)]}

QueryTokens ==
  {NoToken, BearerOf(Ann), ShortBearer(Ann), Garbage, RepoLinkAt(0, Sue, "d1")}

AuthRequests ==
  {GetReq(h, sg, qt, "d1") :
     h \in Headers, sg \in LinkLike \cup {NoToken}, qt \in QueryTokens}

InitAuth ==
  /\ now = 0
  /\ docs = [id \in DocIds |-> Doc("approved", CAMPUS, NoDate, ArrayOf({}))]
  /\ disk = DocIds
  /\ link = NoToken
  /\ resp = NoResp
  /\ stream = NoStream
  /\ handles = 0
  /\ served = FALSE
  /\ inflight = NoRequests
  /\ users = NoUsers
  /\ pendingTimers = NoTimers
  /\ mail = {}

AuthFetch == \E req \in AuthRequests : GetFile(req)

AuthMint == \E req \in AuthRequests : GetSigned(req)

AuthWrite ==
  \E h \in Headers, qt \in QueryTokens :
    PutVisibility([PutReq(h, "d1", Body("", PUBLIC, NoDate, NotArray))
                     EXCEPT !.token = qt])

NextAuth ==
  \/ AuthFetch
  \/ AuthMint
  \/ AuthWrite
  \/ ClockAdvances
  \/ Complete

SpecAuth == InitAuth /\ [][NextAuth]_vars

(***************************************************************************)
(* SpecList: the repository list -- every principal asks GET /api/repository*)
(* with every query over documents of every visibility, as the clock runs   *)
(***************************************************************************)
ListReq(hdr, query) ==
  [hdr |-> hdr, sig |-> NoToken, token |-> NoToken, method |-> "GET",
   id |-> "", query |-> query]

\* req.query; status is a parameter the handler does not read
Query(status, role, year, category, q, genre, sort, page, limit) ==
  [status |-> status, role |-> role, year |-> year, category |-> category,
   q |-> q, genre |-> genre, sort |-> sort, page |-> page, limit |-> limit]

NoQuery == Query("", <<>>, <<>>, <<>>, <<>>, <<>>, "latest", <<>>, <<>>)

Queries ==
  {NoQuery}
  \cup {[NoQuery EXCEPT !.q = v] :
          v \in {<<"s","O">>, <<".">>, <<"(">>, <<" ">>, <<"2","0","2",".">>}}
  \cup {[NoQuery EXCEPT !.year = v] :
          v \in {<<"2","0","2","4">>, <<" ","2","0","2","3">>}}
  \cup {[NoQuery EXCEPT !.category = v] :
          v \in {<<"e","s","s","a","y",","," ","m","a","p">>, <<",">>}}
  \cup {[NoQuery EXCEPT !.genre = v] : v \in {<<"a","i">>}}
  \cup {[NoQuery EXCEPT !.role = v] :
          v \in {STUDENT, FACULTY, <<"r","o","o","t">>}}
  \cup {[NoQuery EXCEPT !.sort = v] : v \in {"year"}}
  \cup {[NoQuery EXCEPT !.page = v] : v \in {<<"2">>, <<"-","3">>}}
  \cup {[NoQuery EXCEPT !.limit = v] :
          v \in {<<"0">>, <<"5","0","0">>, <<"a","b","c">>}}
  \cup {[NoQuery EXCEPT !.status = v] : v \in {"pending"}}
  \cup {[NoQuery EXCEPT !.status = "pending", !.year = <<"2","0","2","4">>,
                        !.role = STUDENT]}

ListDocs ==
  {Doc(st, v[1], v[2], v[3]) :
     st \in {"pending", "approved"},
     v \in {<<PUBLIC, NoDate, ArrayOf({})>>,
            <<CAMPUS, NoDate, ArrayOf({})>>,
            <<EMBARGO, DateAt(65), ArrayOf({})>>,
            <<PRIVATE, NoDate, ArrayOf({})>>,
            <<PRIVATE, NoDate, ArrayOf({Eve.email})>>}}

\* a second document, approved and public, with other metadata
Essay ==
  [Doc("approved", PUBLIC, NoDate, ArrayOf({})) EXCEPT
     !.title = <<"A","I">>, !.year = <<"2","0","2","3">>,
     !.category = <<>>, !.categories = {<<"e","s","s","a","y">>},
     !.genreTags = {<<"a","i">>}, !.uploaderRole = FACULTY]

InitList ==
  /\ now = 0
  /\ \E d \in ListDocs, by \in {STUDENT, STAFF} :
       docs = [id \in DocIds |->
                 IF id = "d1" THEN [d EXCEPT !.uploaderRole = by] ELSE Essay]
  /\ disk = DocIds
  /\ link = NoToken
  /\ resp = NoResp
  /\ stream = NoStream
  /\ handles = 0
  /\ served = FALSE
  /\ inflight = NoRequests
  /\ users = NoUsers
  /\ pendingTimers = NoTimers
  /\ mail = {}

ListRepository ==
  \E u \in {Ann, Eve, Sue}, query \in Queries :
    RepoList(ListReq(BearerHeader(BearerOf(u)), query))

ListResearch ==
  \E u \in {Ann, Eve, Sue, Upl, Fay} :
    ResearchList(ListReq(BearerHeader(BearerOf(u)), NoQuery))

GetRepositoryItem ==
  \E u \in {Ann, Eve, Sue}, id \in DocIds \cup {AbsentId, MalformedId} :
    RepoItem(GetReq(BearerHeader(BearerOf(u)), NoToken, NoToken, id))

NextList ==
  \/ ListRepository
  \/ ListResearch
  \/ GetRepositoryItem
  \/ ClockAdvances
  \/ Complete

SpecList == InitList /\ [][NextList]_vars

(***************************************************************************)
(* SpecStream: the file streamer and the life of its read handle -- the     *)
(* document is approved or not, its file is on disk or not, the client      *)
(* aborts before or after the handle is opened, reads and writes fail       *)
(***************************************************************************)
StreamDocs ==
  {Doc(st, v, NoDate, ArrayOf({})) :
     st \in {"pending", "approved"}, v \in {PUBLIC, CAMPUS}}

InitStream ==
  /\ now = 0
  /\ \E d \in StreamDocs :
       docs = [id \in DocIds |->
                 IF id = "d1" THEN d
                 ELSE Doc("approved", PUBLIC, NoDate, ArrayOf({}))]
  /\ disk \in SUBSET DocIds
  /\ link = LinkAt(0, "u2", "d1")
  /\ resp = NoResp
  /\ stream = NoStream
  /\ handles = 0
  /\ served = FALSE
  /\ inflight = NoRequests
  /\ users = NoUsers
  /\ pendingTimers = NoTimers
  /\ mail = {}

StreamFetch ==
  /\ handles < MaxHandles
  /\ \E u \in {Ann, Eve}, id \in DocIds \cup {AbsentId, MalformedId},
        aborted \in BOOLEAN :
       GetFileOn(GetReq(BearerHeader(BearerOf(u)), NoToken, NoToken, id),
                 aborted)

StreamFetchWithLink ==
  /\ handles < MaxHandles
  /\ \E id \in DocIds : GetFile(GetReq(NoHeader, link, NoToken, id))

NextStream ==
  \/ StreamFetch
  \/ StreamFetchWithLink
  \/ FirstChunk
  \/ StreamError
  \/ PipeError
  \/ RequestClosed
  \/ Settle
  \/ Complete

\* Node emits 'close' on every request, at the latest when its socket closes
SpecStream == InitStream /\ [][NextStream]_vars /\ WF_vars(RequestClosed)

(***************************************************************************)
(* SpecWrite: every route that creates a document or rewrites its           *)
(* visibility, asked with every visibility and every embargoUntil           *)
(***************************************************************************)
PostReq(hdr, id, body) ==
  [hdr |-> hdr, sig |-> NoToken, token |-> NoToken, method |-> "POST",
   id |-> id, body |-> body]

UploadBody(visibility, embargoUntil, allowedViewers, submissionType, sourceId) ==
  [visibility |-> visibility, embargoUntil |-> embargoUntil,
   allowedViewers |-> allowedViewers, submissionType |-> submissionType,
   sourceId |-> sourceId]

\* visibility as callers type it: absent, in lower case, capitalised
TypedVisibilities ==
  {<<>>, PUBLIC, PRIVATE, EMBARGO, <<"E","m","b","a","r","g","o">>}

TypedDates == {NoDate, JunkDate} \cup {DateAt(t) : t \in EmbargoInstants}

UploadBodies ==
  {UploadBody(v, e, a, t, "d1") :
     v \in TypedVisibilities, e \in TypedDates,
     a \in {ArrayOf(TypedViewers)}, t \in {"draft", "final"}}

PutBodies ==
  {Body(st, v, e, NotArray) :
     st \in {"", "pending"}, v \in TypedVisibilities \ {PRIVATE},
     e \in TypedDates}

InitWrite ==
  /\ now = 0
  /\ docs = [id \in DocIds |->
               IF id = "d1"
                 THEN [Doc("approved", CAMPUS, NoDate, ArrayOf({}))
                         EXCEPT !.source = "faculty-approved",
                                !.submissionType = "final"]
               ELSE NoDoc]
  /\ disk = {"d1"}
  /\ link = NoToken
  /\ resp = NoResp
  /\ stream = NoStream
  /\ handles = 0
  /\ served = FALSE
  /\ inflight = NoRequests
  /\ users = NoUsers
  /\ pendingTimers = NoTimers
  /\ mail = {}

Uploaders == {Sue, Stu, Adv}

StaffUploads ==
  \E u \in Uploaders, b \in UploadBodies :
    UploadStaff(PostReq(BearerHeader(BearerOf(u)), "", b))

AdminUploads ==
  \E u \in Uploaders, b \in UploadBodies :
    UploadAdmin(PostReq(BearerHeader(BearerOf(u)), "", b))

StaffImports ==
  \E u \in Uploaders, b \in UploadBodies, id \in DocIds \cup {MalformedId} :
    Import(PostReq(BearerHeader(BearerOf(u)), id, b))

StaffUploadsMetadata ==
  \E u \in Uploaders, b \in UploadBodies :
    UploadMetadata(PostReq(BearerHeader(BearerOf(u)), "", b))

StudentUploads ==
  \E u \in Uploaders, b \in UploadBodies :
    UploadStudent(PostReq(BearerHeader(BearerOf(u)), "", b))

FacultyUploads ==
  \E u \in Uploaders, b \in UploadBodies :
    UploadFaculty(PostReq(BearerHeader(BearerOf(u)), "", b))

StaffAttaches ==
  \E u \in Uploaders, b \in UploadBodies :
    UploadFromApproved(PostReq(BearerHeader(BearerOf(u)), "", b))

StaffRewritesVisibility ==
  \E b \in PutBodies, id \in DocIds :
    PutVisibility(PutReq(BearerHeader(BearerOf(Sue)), id, b))

StaffRewrites ==
  \E b \in PutBodies, id \in DocIds :
    PutResearch(PutReq(BearerHeader(BearerOf(Sue)), id, b))

StaffListsApproved ==
  \E u \in Uploaders :
    ApprovedList(ListReq(BearerHeader(BearerOf(u)), NoQuery))

NextWrite ==
  \/ StaffListsApproved
  \/ StaffUploads
  \/ AdminUploads
  \/ StaffImports
  \/ StaffUploadsMetadata
  \/ StudentUploads
  \/ FacultyUploads
  \/ StaffAttaches
  \/ StaffRewritesVisibility
  \/ StaffRewrites
  \/ Complete

SpecWrite == InitWrite /\ [][NextWrite]_vars

(***************************************************************************)
(* routes/auth.js: POST /login and POST /verify-code, the e-mailed codes     *)
(***************************************************************************)
\* 5 * 60 * 1000 ms, in seconds
OTP_TTL == 300

\* 7 * 24 * 60 * 60 * 1000 ms, in seconds
SEVEN_DAYS == 604800

\* a stored account; a null code is the empty string of characters
Account(id, email, role, verified, pin) ==
  [id |-> id, email |-> email, role |-> role, verified |-> verified,
   verificationCode |-> <<>>, loginOtp |-> <<>>, loginOtpExpires |-> NoDate,
   pin |-> pin, lastVerifiedAt |-> NoDate]

\* req.body of /login and /verify-code
AuthBody(email, code, pin) == [email |-> email, code |-> code, pin |-> pin]

\* /^\d{6}$/.test(s)
isSixDigits(s) == Len(s) = 6 /\ \A i \in 1..6 : isDigit(s[i])

\* sendOtpEmail(to, code, title): the message handed to the transport
OtpMail(to, code) == [at |-> now, kind |-> "otp", email |-> to, code |-> code]

\* signAuthToken(user)
signAuthToken(user) ==
  Jwt(JWT_SECRET, JWT_ISSUER, now, now + AUTH_TOKEN_TTL,
      user.id, user.email, user.role, "", "")

\* the handlers' answer: no middleware runs before them
AuthResponse(route, req, status, token) ==
  Response(route, req, MwNext(NoUser), status, "", token)

\* POST /login; otp is the value Math.random() produced
Login(req, otp) ==
  LET route  == "POST /auth/login"
      email  == trim(toLowerCase(req.body.email))
      rawPin == trim(req.body.pin)
      user   == users[email]
      needsOtp == \/ ~ user.verified
                  \/ ~ user.lastVerifiedAt.isSet
                  \/ now - user.lastVerifiedAt.at > SEVEN_DAYS
      answer(status, token) ==
        /\ resp' = AuthResponse(route, req, status, token)
        /\ UNCHANGED <<users, mail>>
  IN  /\ Idle
      /\ UNCHANGED <<now, docs, disk, link, served, stream, handles,
                     inflight, pendingTimers>>
      /\ IF email = <<>> \/ rawPin = <<>> THEN answer(400, NoToken)
         ELSE IF ~ isSixDigits(rawPin) THEN answer(400, NoToken)
         ELSE IF email \notin DOMAIN users THEN answer(404, NoToken)
         ELSE IF rawPin # user.pin THEN answer(401, NoToken)
         ELSE IF user.role = ADMIN THEN answer(200, signAuthToken(user))
         ELSE IF ~ needsOtp THEN answer(200, signAuthToken(user))
         ELSE /\ users' = [users EXCEPT ![email] =
                   IF ~ user.verified
                     THEN [user EXCEPT !.verificationCode = otp]
                   ELSE [user EXCEPT !.loginOtp = otp,
                                     !.loginOtpExpires = DateAt(now + OTP_TTL)]]
              /\ mail' = mail \cup {OtpMail(user.email, otp)}
              /\ resp' = AuthResponse(route, req, 200, NoToken)

\* POST /verify-code
VerifyCode(req) ==
  LET route == "POST /auth/verify-code"
      email == toLowerCase(trim(req.body.email))
      code  == trim(req.body.code)
      user  == users[email]
      answer(status) ==
        /\ resp' = AuthResponse(route, req, status, NoToken)
        /\ UNCHANGED users
      verifiedNow ==
        [user EXCEPT !.verified = TRUE, !.verificationCode = <<>>,
                     !.loginOtp = <<>>, !.loginOtpExpires = NoDate,
                     !.lastVerifiedAt = DateAt(now)]
      loggedIn ==
        [user EXCEPT !.loginOtp = <<>>, !.loginOtpExpires = NoDate,
                     !.lastVerifiedAt = DateAt(now)]
      accept(saved) ==
        /\ users' = [users EXCEPT ![email] = saved]
        /\ resp' = AuthResponse(route, req, 200, signAuthToken(saved))
  IN  /\ Idle
      /\ UNCHANGED <<now, docs, disk, link, served, stream, handles,
                     inflight, pendingTimers, mail>>
      /\ IF email = <<>> \/ ~ isSixDigits(code) THEN answer(400)
         ELSE IF email \notin DOMAIN users THEN answer(404)
         ELSE IF ~ user.verified
           THEN IF user.verificationCode = <<>> \/ user.verificationCode # code
                  THEN answer(400)
                ELSE accept(verifiedNow)
         ELSE IF user.loginOtp = <<>> THEN answer(400)
         ELSE IF user.loginOtp # code THEN answer(400)
         ELSE IF \/ ~ user.loginOtpExpires.isSet
                 \/ user.loginOtpExpires.at < now THEN answer(400)
         ELSE accept(loggedIn)

\* minutes pass between two requests
Wait(dt) ==
  /\ Idle
  /\ now + dt <= MaxWait
  /\ now' = now + dt
  /\ UNCHANGED <<docs, disk, link, served, resp, stream, handles,
                 inflight, users, pendingTimers, mail>>

(***************************************************************************)
(* SpecOtp: two students and a staff member log in and present codes as    *)
(* minutes pass                                                             *)
(***************************************************************************)
Pin == <<"1","2","3","4","5","6">>

Codes == {<<"1","1","1","1","1","1">>, <<"2","2","2","2","2","2">>}

\* Stu has never verified; Sue verified before lastVerifiedAt was recorded
Accounts ==
  (Stu.email :> Account(Stu.id, Stu.email, Stu.role, FALSE, Pin))
  @@ (Sue.email :> Account(Sue.id, Sue.email, Sue.role, TRUE, Pin))
  @@ (Adam.email :> Account(Adam.id, Adam.email, Adam.role, TRUE, Pin))

InitOtp ==
  /\ now = 0
  /\ docs = [id \in DocIds |-> NoDoc]
  /\ disk = {}
  /\ link = NoToken
  /\ resp = NoResp
  /\ stream = NoStream
  /\ handles = 0
  /\ served = FALSE
  /\ inflight = NoRequests
  /\ users = Accounts
  /\ pendingTimers = NoTimers
  /\ mail = {}

LoginRequests ==
  {PostReq(NoHeader, "", AuthBody(e, <<>>, p)) :
     e \in {Stu.email, Sue.email, Adam.email, Ann.email},
     p \in {Pin, <<"6","5","4","3","2","1">>, <<"1","2">>}}

VerifyRequests ==
  {PostReq(NoHeader, "", AuthBody(e, c, <<>>)) :
     e \in {Stu.email, Sue.email, Ann.email},
     c \in Codes \cup {<<"1","2">>}}

UserLogsIn ==
  \E req \in LoginRequests, otp \in Codes :
    /\ Cardinality(mail) < MaxMail
    /\ Login(req, otp)

UserPresentsCode == \E req \in VerifyRequests : VerifyCode(req)

MinutesPass == \E dt \in {150, 151} : Wait(dt)

NextOtp ==
  \/ UserLogsIn
  \/ UserPresentsCode
  \/ MinutesPass
  \/ Complete

SpecOtp == InitOtp /\ [][NextOtp]_vars

(***************************************************************************)
(* SpecMail: students upload, revise and delete submissions while the       *)
(* final-mail timers run                                                    *)
(***************************************************************************)
InitMail ==
  /\ now = 0
  /\ docs = [id \in DocIds |-> NoDoc]
  /\ disk = {}
  /\ link = NoToken
  /\ resp = NoResp
  /\ stream = NoStream
  /\ handles = 0
  /\ served = FALSE
  /\ inflight = NoRequests
  /\ users = NoUsers
  /\ pendingTimers = NoTimers
  /\ mail = {}

Submissions ==
  {UploadBody(v, NoDate, ArrayOf({}), t, "") :
     v \in {PUBLIC, EMBARGO}, t \in {"draft", "final"}}

DeleteReq(hdr, id) ==
  [hdr |-> hdr, sig |-> NoToken, token |-> NoToken, method |-> "DELETE",
   id |-> id]

StudentSubmits ==
  \E u \in {Stu, Ann, Sue}, b \in Submissions :
    /\ Cardinality(mail) < MaxMail
    /\ UploadStudent(PostReq(BearerHeader(BearerOf(u)), "", b))

StudentRevises ==
  \E u \in {Stu, Ann, Sue}, id \in DocIds \cup {MalformedId},
     b \in Submissions :
    Revise(PutReq(BearerHeader(BearerOf(u)), id, b))

StudentDeletes ==
  \E u \in {Stu, Ann, Sue}, id \in DocIds \cup {MalformedId} :
    Delete(DeleteReq(BearerHeader(BearerOf(u)), id))

FinalTimerFires == \E t \in pendingTimers : TimerFires(t)

NextMail ==
  \/ StudentSubmits
  \/ StudentRevises
  \/ StudentDeletes
  \/ FinalTimerFires
  \/ MinutesPass
  \/ Complete

SpecMail == InitMail /\ [][NextMail]_vars

(***************************************************************************)
(* SpecAttach: POST /upload-from-approved asked on two connections at once   *)
(***************************************************************************)
AttachIds == {"d1", "d2", "d3"}

InitAttach ==
  /\ now = 0
  /\ docs = [id \in AttachIds |->
               IF id = "d1"
                 THEN [Doc("approved", CAMPUS, NoDate, ArrayOf({}))
                         EXCEPT !.source = "faculty-approved",
                                !.submissionType = "final"]
               ELSE NoDoc]
  /\ \E onDisk \in BOOLEAN : disk = IF onDisk THEN {"d1"} ELSE {}
  /\ link = NoToken
  /\ resp = NoResp
  /\ stream = NoStream
  /\ handles = 0
  /\ served = FALSE
  /\ inflight = NoRequests
  /\ users = NoUsers
  /\ pendingTimers = NoTimers
  /\ mail = {}

AttachRequests ==
  {PostReq(BearerHeader(BearerOf(u)), "",
           UploadBody(<<>>, NoDate, ArrayOf({}), "final", id)) :
     u \in {Sue, Adam, Stu}, id \in AttachIds \cup {MalformedId}}

StaffAttachesFrom ==
  \E c \in Connections, req \in AttachRequests : AttachFind(c, req)

CopyStored == \E c \in Connections : AttachCreate(c)

SourceConsumed == \E c \in Connections : AttachConsume(c)

NextAttach ==
  \/ StaffAttachesFrom
  \/ CopyStored
  \/ SourceConsumed

SpecAttach == InitAttach /\ [][NextAttach]_vars

(***************************************************************************)
(* SpecGate: the four routes that send a document's bytes, asked by every   *)
(* principal for documents of every status and visibility                   *)
(***************************************************************************)
GatePrincipals == {Ann, Eve, Sue, Adam, Otto, Stu, Adv, Upl, Fay}

GateDocs ==
  {Doc(st, v, e, a) :
     st \in {"pending", "approved"},
     v \in ALLOWED_VIS,
     e \in {DateAt(t) : t \in EmbargoInstants},
     a \in {ArrayOf({}), ArrayOf({Eve.email})}}

InitGate ==
  /\ now = 0
  /\ \E d \in GateDocs :
       docs = [id \in DocIds |->
                 IF id = "d1" THEN d
                 ELSE Doc("approved", PUBLIC, NoDate, ArrayOf({}))]
  /\ disk \in {DocIds, {"d2"}}
  /\ link = LinkAt(0, "u2", "d1")
  /\ resp = NoResp
  /\ stream = NoStream
  /\ handles = 0
  /\ served = FALSE
  /\ inflight = NoRequests
  /\ users = NoUsers
  /\ pendingTimers = NoTimers
  /\ mail = {}

GateRequests ==
  {GetReq(BearerHeader(BearerOf(u)), NoToken, NoToken, id) :
     u \in GatePrincipals, id \in {"d1", MalformedId}}
  \cup {GetReq(NoHeader, link, NoToken, id) : id \in DocIds}

GateFetch == \E req \in GateRequests : GetFile(req)

StudentFetch == \E req \in GateRequests : StudentFile(req)

StudentDownloads == \E req \in GateRequests : StudentDownload(req)

FacultyPreviews == \E req \in GateRequests : FacultyPreview(req)

NextGate ==
  \/ GateFetch
  \/ StudentFetch
  \/ StudentDownloads
  \/ FacultyPreviews
  \/ ClockAdvances
  \/ Complete

SpecGate == InitGate /\ [][NextGate]_vars

(***************************************************************************)
(* Properties                                                               *)
(***************************************************************************)
FileRoute == "GET /research/file/:id"
MintRoutes == {"GET /research/file/:id/signed", "GET /repository/file/:id/signed"}

\* the response in resp is the file streamer's answer to a bearer principal
BearerFetch ==
  /\ resp.route = FileRoute
  /\ resp.reached
  /\ ~ resp.user.signedUrl

\* the response in resp is the file streamer's answer to a presented link
LinkFetch ==
  /\ resp.route = FileRoute
  /\ resp.reached
  /\ resp.user.signedUrl

\* the stored document the request in resp names
Asked == findById(resp.req.id)

\* the bearer token of the request in resp
Presented == resp.req.hdr.token

Streams == resp.status = 200 /\ resp.streamed = resp.req.id
Forbidden == resp.status = 403 /\ resp.streamed = ""

\* C1: a document whose status is not 'approved' is never streamed by
\* GET /research/file/:id and no signed link is minted for it, whoever asks
\* (owner, staff, holder of a link) and whenever
C1_UnapprovedDenied ==
  (/\ resp.route \in {FileRoute} \cup MintRoutes
   /\ Asked.exists
   /\ Asked.status # "approved")
  => (resp.status # 200 /\ resp.streamed = "" /\ resp.minted = NoToken)

\* a valid link bound to the document is presented after the document was
\* taken out of 'approved'
C1_Witness ==
  /\ LinkFetch
  /\ resp.user.sigFileId = resp.req.id
  /\ Asked.exists
  /\ Asked.status = "rejected"
  /\ resp.status = 404

\* the identity of the bearer principal: the token's e-mail, lowercased
Identity == toLowerCase(Presented.email)

\* the principal is the document's author, student, adviser or uploader
OwnsAsked ==
  \/ Identity \in {toLowerCase(Asked.author), toLowerCase(Asked.student),
                   toLowerCase(Asked.adviser)}
  \/ Asked.uploadedBy = Presented.id

OperationalRole == Presented.role \in {STAFF, ADMIN}

\* the identity ends with the institutional domain
Affiliated == endsWith(Identity, MSUIIT_DOMAIN)

\* the visibility class the stored value stands for
AskedClass == toLowerCase(Asked.visibility)

\* a bearer principal without ownership or operational role fetches an
\* approved document
PlainFetch ==
  /\ BearerFetch
  /\ Asked.exists
  /\ Asked.status = "approved"
  /\ ~ OwnsAsked
  /\ ~ OperationalRole

\* C2: the author, student, adviser (case-insensitively) or uploader of an
\* approved document is allowed whatever its visibility, embargo instant and
\* allow-list, and whatever the time
C2_OwnerAllowed ==
  (BearerFetch /\ Asked.exists /\ Asked.status = "approved" /\ OwnsAsked)
  => Streams

\* an owner without operational role streams an embargoed document before
\* the embargo ends
C2_Witness ==
  /\ BearerFetch /\ Asked.exists /\ OwnsAsked /\ ~ OperationalRole
  /\ AskedClass = EMBARGO
  /\ Asked.embargoUntil.isSet /\ now < Asked.embargoUntil.at
  /\ Streams

\* C3: a staff or admin principal is allowed on every approved document,
\* whatever visibility, embargo, allow-list and domain
C3_StaffAllowed ==
  (BearerFetch /\ Asked.exists /\ Asked.status = "approved" /\ OperationalRole)
  => Streams

\* an admin outside the institutional domain streams a private document with
\* an empty allow-list
C3_Witness ==
  /\ BearerFetch /\ Asked.exists /\ Presented.role = ADMIN /\ ~ Affiliated
  /\ ~ OwnsAsked
  /\ AskedClass = PRIVATE
  /\ Asked.allowedViewers = ArrayOf({})
  /\ Streams

\* C4: on an embargoed document a principal without ownership or
\* operational role is denied before embargoUntil even when affiliated,
\* allowed from embargoUntil on when affiliated, denied when not
C4_Embargo ==
  (PlainFetch /\ AskedClass = EMBARGO /\ Asked.embargoUntil.isSet)
  => /\ now < Asked.embargoUntil.at => Forbidden
     /\ (now >= Asked.embargoUntil.at /\ Affiliated) => Streams
     /\ (now >= Asked.embargoUntil.at /\ ~ Affiliated) => Forbidden

\* an affiliated principal streams at the embargo instant itself
C4_Witness ==
  /\ PlainFetch /\ AskedClass = EMBARGO /\ Asked.embargoUntil.isSet
  /\ now = Asked.embargoUntil.at
  /\ Affiliated
  /\ Streams

\* C5: on a private document a principal without ownership or operational
\* role is allowed iff the lowercased identity is in the lowercased
\* allow-list; an empty or missing list denies, with 403
C5_Private ==
  (PlainFetch /\ AskedClass = PRIVATE)
  => LET listed == IF Asked.allowedViewers.isArray
                     THEN {toLowerCase(e) : e \in Asked.allowedViewers.items}
                     ELSE {}
     IN  /\ Identity \in listed => Streams
         /\ Identity \notin listed => Forbidden

\* a principal is allowed through an entry stored in another case
C5_Witness ==
  /\ PlainFetch /\ AskedClass = PRIVATE
  /\ Asked.allowedViewers.isArray
  /\ Identity \notin Asked.allowedViewers.items
  /\ Streams

\* C6: on a campus document, or one whose visibility is missing or unknown,
\* a principal without ownership or operational role is allowed iff the
\* identity ends with the institutional domain (403 otherwise); staff of
\* any domain is allowed
C6_Campus ==
  (/\ BearerFetch /\ Asked.exists /\ Asked.status = "approved"
   /\ (AskedClass = CAMPUS \/ AskedClass \notin ALLOWED_VIS))
  => /\ (PlainFetch /\ Affiliated) => Streams
     /\ (PlainFetch /\ ~ Affiliated) => Forbidden
     /\ Presented.role = STAFF => Streams

\* an affiliated student streams a document whose visibility is outside the
\* four classes
C6_Witness ==
  /\ PlainFetch /\ AskedClass \notin ALLOWED_VIS
  /\ Affiliated
  /\ Streams

\* C7: a link bound to one document never streams another: on every
\* presentation the bound id is compared with the requested id, and a
\* mismatch on an existing approved document is answered 403
C7_LinkBoundToDocument ==
  (LinkFetch /\ resp.req.sig.fileId # resp.req.id)
  => /\ resp.streamed = ""
     /\ (Asked.exists /\ Asked.status = "approved") => resp.status = 403

\* an unexpired link minted for one approved document is presented on another
\* approved document
C7_Witness ==
  /\ LinkFetch
  /\ resp.req.sig.fileId \in DocIds \ {resp.req.id}
  /\ findById(resp.req.sig.fileId).status = "approved"
  /\ Asked.status = "approved"
  /\ now < resp.req.sig.iat + SIGNED_URL_TTL
  /\ resp.status = 403

\* the request in resp presents a link and no bearer header
LinkPresented ==
  /\ resp.route = FileRoute
  /\ resp.req.hdr = NoHeader
  /\ resp.req.sig.kind = "jwt"

\* C8 as claimed: a link presented later than its mint time plus the TTL of
\* 120 seconds is rejected
C8_RejectedAfterTtl ==
  (LinkPresented /\ now > resp.req.sig.iat + SIGNED_URL_TTL)
  => resp.streamed = ""

\* C8, amended: a link presented at or after its mint time plus the TTL plus
\* the 10 seconds of clock tolerance is rejected with 401 before the handler
C8_RejectedAfterTtlAndTolerance ==
  (LinkPresented
   /\ now >= resp.req.sig.iat + SIGNED_URL_TTL + CLOCK_TOLERANCE)
  => (resp.status = 401 /\ ~ resp.reached /\ resp.streamed = "")

\* a link bound to the requested approved document is presented at the
\* first rejected instant, mint + TTL + tolerance
C8_Witness ==
  /\ LinkPresented
  /\ now = resp.req.sig.iat + SIGNED_URL_TTL + CLOCK_TOLERANCE
  /\ resp.req.sig.fileId = resp.req.id
  /\ Asked.status = "approved"
  /\ resp.status = 401

\* C9: both minters answer 403, with no link, a principal whom canView
\* denies on the approved document
C9_MintOnlyIfCanView ==
  (/\ resp.route \in MintRoutes
   /\ resp.reached
   /\ Asked.exists
   /\ Asked.status = "approved"
   /\ ~ canView(Asked, resp.user, now))
  => (resp.status = 403 /\ resp.minted = NoToken)

\* the file streamer's handler answered a request whose credential resolved
\* and whose connection was alive
FileAnswer ==
  /\ resp.route = FileRoute
  /\ resp.reached
  /\ ~ stream.closed

\* the principal of the request in resp passes the streamer's authorization
\* step on the document it names
Authorized ==
  IF resp.user.signedUrl THEN resp.user.sigFileId = resp.req.id
  ELSE canView(Asked, resp.user, now)

\* C11: with a resolvable credential, a request for a document that is
\* absent, or present and not approved, or approved and authorized with its
\* file missing on disk, is answered 404 and opens no read handle
C11_NotFoundCollapsed ==
  (/\ FileAnswer
   /\ \/ ~ Asked.exists
      \/ Asked.status # "approved"
      \/ Authorized /\ resp.req.id \notin disk)
  => (resp.status = 404 /\ stream.fd = "none")

\* the repository list answered the request in resp
Listed ==
  /\ resp.route = "GET /repository"
  /\ resp.reached
  /\ resp.status = 200

\* user is the author, student, adviser or uploader of r
Owns(r, user) ==
  \/ toLowerCase(user.email) \in
       {toLowerCase(r.author), toLowerCase(r.student), toLowerCase(r.adviser)}
  \/ r.uploadedBy = user.id

\* C12: for a principal who owns nothing (campus, external, staff or admin)
\* an approved document matches buildAllowedFilter(principal) if and only
\* if canView allows the principal on it
C12_FilterEqualsCanView ==
  (Listed /\ resp.req.query = NoQuery)
  => \A id \in DocIds :
       (docs[id].status = "approved" /\ ~ Owns(docs[id], resp.user))
       => ((id \in resp.data) <=> canView(docs[id], resp.user, now))

\* C22: every document GET /api/research or GET /api/repository returns is
\* approved and one canView allows the principal on
C22_ListsOnlyPermitted ==
  (/\ resp.route \in {"GET /research", "GET /repository"}
   /\ resp.reached
   /\ resp.status = 200)
  => \A id \in resp.data :
       /\ docs[id].status = "approved"
       /\ canView(docs[id], resp.user, now)

\* C13: whatever the caller's query, GET /api/repository returns only
\* documents that match buildAllowedFilter(principal) with no extra filter
C13_CallerOnlyNarrows ==
  Listed
  => /\ resp.data \subseteq find(buildAllowedFilter(resp.user, NoFilter))
     /\ resp.total <= Cardinality(find(buildAllowedFilter(resp.user, NoFilter)))

\* a caller asks for status=pending while a pending document is stored, and
\* gets a strict part of what the principal is allowed
C13_Witness ==
  /\ Listed
  /\ resp.req.query.status = "pending"
  /\ \E id \in DocIds : docs[id].status = "pending"
  /\ resp.req.query.year # <<>>
  /\ resp.data # find(buildAllowedFilter(resp.user, NoFilter))

\* C21: when the read stream of the file route fails, either the headers were
\* not sent and the answer is 500 with no bytes, or the connection is closed;
\* in both cases the handle is released
C21_StreamErrorEndsResponse ==
  (/\ resp.route = FileRoute
   /\ stream.fd = "closed"
   /\ ~ stream.closed)
  => resp.status = 500 /\ resp.streamed = ""

\* C14: every read handle the streamer opens is released: once the request
\* it was opened for is over (answered, failed or aborted), the process holds
\* no open handle
C14_NoAbandonedHandle == Idle => handles = 0

\* the routes that read a visibility from the request body
VisibilityRoutes ==
  {"POST /research/upload", "POST /research-admin/upload",
   "POST /research-admin/import/:id", "POST /staff/upload",
   "POST /student/upload", "POST /faculty/my-research",
   "PUT /research-admin/:id/visibility", "PUT /research-admin/:id"}

\* r is the answer of a handler asked to set visibility=embargo with no
\* embargoUntil or with one that is no date
EmbargoWithoutDate(r) ==
  /\ r.route \in VisibilityRoutes
  /\ r.reached
  /\ r.req.body.visibility = EMBARGO
  /\ (~ r.req.body.embargoUntil.isSet \/ r.req.body.embargoUntil.at = NaN)

\* C17: whatever is written, every stored document under embargo has an
\* embargoUntil that is a date; a write that asks for embargo without a valid
\* embargoUntil is answered with an error and stores nothing
C17_EmbargoHasDate ==
  /\ [](\A id \in DocIds :
          docs[id].exists /\ docs[id].visibility = EMBARGO
          => docs[id].embargoUntil.isSet /\ docs[id].embargoUntil.at # NaN)
  /\ [][resp' # resp /\ EmbargoWithoutDate(resp')
          => resp'.status >= 400 /\ docs' = docs /\ disk' = disk]_vars

\* a student uploads with visibility=embargo and no embargoUntil: the create
\* fails, the answer is 500 and the collection is as before, while the other
\* stored document is under embargo with its date
C17_Witness ==
  /\ resp.route = "POST /student/upload"
  /\ EmbargoWithoutDate(resp)
  /\ ~ resp.req.body.embargoUntil.isSet
  /\ resp.status = 500
  /\ ~ docs["d2"].exists
  /\ docs["d1"].visibility = EMBARGO
  /\ docs["d1"].embargoUntil = DateAt(65)

\* the request in resp was ended without a principal: authentication failed
AuthFailure ==
  /\ resp.route # "none"
  /\ ~ resp.reached
  /\ resp.user = NoUser

\* the bearer token the route of the request in resp examines: the header's,
\* or on a GET behind authorize the ?token parameter
Examined ==
  IF resp.req.hdr.scheme = "Bearer" /\ resp.req.hdr.token.kind # "none"
    THEN resp.req.hdr.token
  ELSE IF resp.route # FileRoute /\ resp.req.method = "GET" THEN resp.req.token
  ELSE NoToken

BearerVerifies == jwtVerify(Examined, JWT_SECRET, JWT_ISSUER, now)

\* the credential that decided the request in resp verifies and lacks a
\* mandatory claim: the bearer token, or on the file route, when no bearer
\* token verifies, the link
LacksClaim ==
  IF BearerVerifies
    THEN Examined.id = "" \/ Examined.email = <<>> \/ Examined.role = <<>>
  ELSE /\ resp.route = FileRoute
       /\ jwtVerify(resp.req.sig, SIGNED_URL_SECRET, "", now)
       /\ (resp.req.sig.sub = "" \/ resp.req.sig.fileId = "")

C16_TwoTrustDomains ==
  resp.route # "none" /\ resp.reached
  => IF resp.user.signedUrl
       THEN /\ resp.route = FileRoute
            /\ resp.req.sig.kind = "jwt"
            /\ resp.req.sig.secret = SIGNED_URL_SECRET
            /\ resp.req.sig.secret # JWT_SECRET
            /\ resp.minted = NoToken
            /\ resp.status = 200 => resp.req.id = resp.req.sig.fileId
            /\ resp.streamed \in {"", resp.req.sig.fileId}
     ELSE /\ Examined.kind = "jwt"
          /\ Examined.secret = JWT_SECRET
          /\ Examined.secret # SIGNED_URL_SECRET
          /\ resp.user.role = Examined.role

\* the file route is asked with a bearer token signed with the link secret
\* and a link signed with the bearer secret, both otherwise complete and
\* unexpired, and ends the request with 401
C16_Witness ==
  /\ resp.route = FileRoute
  /\ resp.req.hdr.scheme = "Bearer"
  /\ resp.req.hdr.token.kind = "jwt"
  /\ resp.req.hdr.token.secret = SIGNED_URL_SECRET
  /\ resp.req.hdr.token.iss = JWT_ISSUER
  /\ resp.req.hdr.token.role = STAFF
  /\ resp.req.sig.kind = "jwt"
  /\ resp.req.sig.secret = JWT_SECRET
  /\ resp.req.sig.fileId = resp.req.id
  /\ now < resp.req.sig.exp
  /\ AuthFailure
  /\ resp.status = 401

\* a bearer token that jwt.verify accepts under the bearer secret and the
\* issuer tag and that carries id, email and role
GoodBearer(t) ==
  /\ t.kind = "jwt"
  /\ t.secret = JWT_SECRET
  /\ t.iss = JWT_ISSUER
  /\ now < t.exp + CLOCK_TOLERANCE
  /\ t.id # "" /\ t.email # <<>> /\ t.role # <<>>

\* a link that jwt.verify accepts under the link secret and that carries
\* sub and fileId
GoodLink(t) ==
  /\ t.kind = "jwt"
  /\ t.secret = SIGNED_URL_SECRET
  /\ now < t.exp + CLOCK_TOLERANCE
  /\ t.sub # "" /\ t.fileId # ""

\* C30: there is at most one pending final-mail timer for a submission, and
\* every Finalized Submission mail was sent for a submission that is still
\* stored and was created at least 5 minutes before the mail
C30_FinalMailOnlyForKept ==
  /\ \A t1, t2 \in pendingTimers : t1.id = t2.id => t1 = t2
  /\ \A m \in mail :
       m.kind = "final" =>
         /\ docs[m.id].exists
         /\ m.at >= docs[m.id].createdAt + FIVE_MIN

\* POST /verify-code accepted the code of the request in resp
CodeAccepted ==
  /\ resp.route = "POST /auth/verify-code"
  /\ resp.status = 200
  /\ resp.minted # NoToken

\* the messages that carried the code of the request in resp to its e-mail
Issued ==
  {m \in mail : /\ m.kind = "otp"
                /\ m.email = toLowerCase(trim(resp.req.body.email))
                /\ m.code = trim(resp.req.body.code)}

\* C29: a code POST /verify-code accepts was issued at most 5 minutes before
C29_CodesExpire ==
  CodeAccepted => \E m \in Issued : now <= m.at + OTP_TTL

\* C28: GET /api/repository/:id, asked with an id that is well formed, answers
\* 200 exactly when the document exists, is approved and the caller satisfies
\* the visibility rule, and 404 exactly when it is absent or not approved
C28_RepositoryItem ==
  (/\ resp.route = "GET /repository/:id"
   /\ resp.reached
   /\ castsToObjectId(resp.req.id))
  => /\ resp.status = 200 <=> /\ Asked.exists
                              /\ Asked.status = "approved"
                              /\ repoItemAllowed(Asked, resp.user)
     /\ resp.status = 404 <=> (~ Asked.exists \/ Asked.status # "approved")

\* C27: no two requests that name the same source are both answered 200
C27_ConsumedOnce ==
  \A c1, c2 \in Connections :
    (/\ c1 # c2
     /\ inflight[c1].phase = "answered" /\ inflight[c1].status = 200
     /\ inflight[c2].phase = "answered" /\ inflight[c2].status = 200)
    => inflight[c1].sourceId # inflight[c2].sourceId

\* the stored documents POST /upload-from-approved created: that route alone
\* stores a document whose file is the copy it made
Attached ==
  {id \in DOMAIN docs : /\ docs[id].exists
                        /\ docs[id].filePath = "/uploads/research/n.pdf"
                        /\ docs[id].source = "faculty-approved"
                        /\ docs[id].uploaderRole \in {STAFF, ADMIN}}

\* the sources POST /upload-from-approved consumed
Consumed ==
  {id \in DOMAIN docs : /\ docs[id].exists
                        /\ docs[id].source = "faculty-approved-used"}

\* C26: the approved list holds no consumed source and no document that
\* upload-from-approved created
C26_ListOnlyUnused ==
  (/\ resp.route = "GET /research/faculty/approved-list"
   /\ resp.reached
   /\ resp.status = 200)
  => resp.data \cap (Consumed \cup Attached) = {}

\* the file route answered not found
NotFound == resp.route = FileRoute /\ resp.reached /\ resp.status = 404

\* C25: every not-found answer of GET /api/research/file/:id has the same
\* status and the same body, whether the document is absent, not approved or
\* without its bytes on disk
C25_UniformNotFound ==
  NotFound => fileError(resp.req, resp.user, Asked) = "File not found"

\* C24: a bearer principal who is neither owner, adviser, uploader nor staff
\* or admin is denied an approved embargo document that has no embargoUntil
C24_EmbargoNeedsDate ==
  (/\ resp.route = FileRoute
   /\ resp.reached
   /\ ~ resp.user.signedUrl
   /\ Asked.exists
   /\ Asked.status = "approved"
   /\ toLowerCase(Asked.visibility) = EMBARGO
   /\ ~ Asked.embargoUntil.isSet
   /\ ~ isOwnerStaffOrAdviser(Asked, resp.user))
  => /\ ~ canView(Asked, resp.user, now)
     /\ resp.status = 403

\* the request in resp presents, in ?sig alone, the link the client holds after
\* that link was already streamed to the end once
Replayed ==
  /\ resp.route = FileRoute
  /\ resp.req.hdr = NoHeader
  /\ link # NoToken
  /\ resp.req.sig = link
  /\ served

\* C23: a link that was streamed once is rejected when it is presented again
C23_SingleUse == Replayed => ~ Streams /\ resp.status \in {401, 403}

\* C23 as the code has it: a link that was streamed once is served again
\* exactly as on its first presentation, while it verifies (before its expiry
\* plus the tolerance), for the document it was minted for, when that
\* document is still approved and its bytes are on disk
C23_ReusableUntilExpiry ==
  Replayed =>
    (Streams <=> /\ now < link.exp + CLOCK_TOLERANCE
                 /\ link.fileId = resp.req.id
                 /\ Asked.exists /\ Asked.status = "approved"
                 /\ Asked.filePath # "" /\ resp.req.id \in disk)

\* a link is streamed a second time, at a later instant than its first use
C23_Witness ==
  /\ Replayed
  /\ Streams
  /\ now > link.iat

\* C18: a fetch that presents a valid bearer token is decided for that
\* token's principal on the document as it is stored when the request is
\* answered: the bytes are sent exactly when the stored document is approved,
\* its file is there and the Evaluator allows, and a Deny is answered 403 --
\* whatever was granted before and whatever link the request also carries
C18_FreshDecision ==
  (/\ resp.route = FileRoute
   /\ resp.req.hdr.scheme = "Bearer"
   /\ GoodBearer(Presented)
   /\ Asked.exists)
  => LET user == bearerUser(Presented)
         allow == canView(Asked, user, now)
     IN  /\ resp.reached
         /\ resp.user = user
         /\ Streams <=> (/\ Asked.status = "approved"
                         /\ allow
                         /\ resp.req.id \in disk)
         /\ Asked.status = "approved" /\ ~ allow => Forbidden

\* a principal was granted a link for a document by GET /file/:id/signed (the
\* Evaluator allowed), the document was changed, and the principal's fetch, with the bearer token and the still valid
\* link for that document, is answered 403
C18_Witness ==
  /\ resp.route = FileRoute
  /\ resp.req.hdr.scheme = "Bearer"
  /\ GoodBearer(Presented)
  /\ resp.req.sig = link
  /\ GoodLink(link)
  /\ link.sub = Presented.id
  /\ link.fileId = resp.req.id
  /\ link.role = <<>>
  /\ Asked.status = "approved"
  /\ Forbidden

\* the routes that send a stored document's bytes
DeliveryRoutes ==
  {FileRoute, "GET /student/file/:id", "GET /student/file/download/:id",
   "GET /faculty/preview/:id"}

\* C19: on every route that sends a document's bytes, they are sent only if
\* the stored document is approved and either the Evaluator allows the
\* principal or the principal is a verified link bound to that document
C19_SingleGate ==
  resp.route \in DeliveryRoutes /\ Streams
  => /\ Asked.status = "approved"
     /\ IF resp.user.signedUrl THEN resp.user.sigFileId = resp.req.id
        ELSE canView(Asked, resp.user, now)

\* C20: the file route asked with a valid bearer token in ?token= and no
\* Authorization header resolves the token's principal and decides as for
\* the same token in the header: the bytes are sent exactly when the document
\* is approved, allowed by the Evaluator and on disk, and the answer is not 401
C20_QueryTokenAccepted ==
  (/\ resp.route = FileRoute
   /\ resp.req.hdr = NoHeader
   /\ GoodBearer(resp.req.token))
  => /\ resp.reached
     /\ resp.user = bearerUser(resp.req.token)
     /\ resp.status # 401
     /\ Streams <=> (/\ Asked.exists
                     /\ Asked.status = "approved"
                     /\ canView(Asked, bearerUser(resp.req.token), now)
                     /\ resp.req.id \in disk)

\* the request in resp carries a credential its route accepts
Credentialed ==
  \/ resp.req.hdr.scheme = "Bearer" /\ GoodBearer(resp.req.hdr.token)
  \/ resp.req.method = "GET" /\ GoodBearer(resp.req.token)
  \/ resp.route = FileRoute /\ GoodLink(resp.req.sig)

\* C10: authorize and authorizeOrSig let a request reach its handler only
\* with a verified bearer token carrying id, email and role or (file route
\* only) a verified link carrying sub and fileId; every other request ends
\* with an error status and no principal
C10_FailClosed ==
  resp.route # "none"
  => /\ resp.reached => (Credentialed /\ resp.user.isSet)
     /\ ~ resp.reached => resp.status \in {400, 401, 403}
     /\ ~ Credentialed
          => (~ resp.reached /\ resp.user = NoUser /\ resp.status \in {400, 401})

\* a correctly signed bearer token without a role is refused although the
\* request also carries a link that would verify
C10_Witness ==
  /\ resp.route = FileRoute
  /\ resp.req.hdr.scheme = "Bearer"
  /\ resp.req.hdr.token.kind = "jwt"
  /\ resp.req.hdr.token.secret = JWT_SECRET
  /\ resp.req.hdr.token.role = <<>>
  /\ GoodLink(resp.req.sig)
  /\ ~ resp.reached
  /\ resp.user = NoUser
  /\ resp.status = 400

====
